---- MODULE Spec2Model ----
(***************************************************************************)
(* Exposure-notification and risk-propagation subsystem of the epidemic    *)
(* simulator.                                                               *)
(*                                                                         *)
(*   - City (src/src/covid19sim/base.py): the global mailbox router, the   *)
(*     GAEN message budget controller and the run loop that drives them.   *)
(*   - dummy_human and the functions of src/risk_prediction.py: rolling    *)
(*     identifier, coded risk, contact clustering and risk fusion.         *)
(*                                                                         *)
(* Python floats are modelled by exact rationals [n, d] in lowest terms.   *)
(* Timestamps are integers counting ticks of the run loop; TicksPerDay     *)
(* ticks make one day, and timedelta.days is the floor division by it.     *)
(***************************************************************************)
EXTENDS Integers, Sequences, FiniteSets, TLC

(***************************************************************************)
(* Exact rationals (the model of Python floats)                            *)
(***************************************************************************)
Abs(x) == IF x < 0 THEN -x ELSE x

RECURSIVE GCD(_, _)
GCD(a, b) == IF b = 0 THEN a ELSE GCD(b, a % b)

Rat(n, d) ==
    LET g == GCD(Abs(n), Abs(d))
        s == IF d < 0 THEN -1 ELSE 1
    IN  [n |-> s * (n \div g), d |-> s * (d \div g)]

Zero == Rat(0, 1)
One == Rat(1, 1)

RAdd(a, b) ==
    LET g == GCD(a.d, b.d)
    IN  Rat(a.n * (b.d \div g) + b.n * (a.d \div g), (a.d \div g) * b.d)

RNeg(a) == [n |-> -a.n, d |-> a.d]
RSub(a, b) == RAdd(a, RNeg(b))

RMul(a, b) ==
    LET g1 == GCD(Abs(a.n), b.d)
        g2 == GCD(Abs(b.n), a.d)
        h1 == IF g1 = 0 THEN 1 ELSE g1
        h2 == IF g2 = 0 THEN 1 ELSE g2
    IN  Rat((a.n \div h1) * (b.n \div h2), (a.d \div h2) * (b.d \div h1))

RDivInt(a, k) == RMul(a, Rat(1, k))
RLess(a, b) == RSub(a, b).n < 0
RLeq(a, b) == RSub(a, b).n <= 0
\* a minimum that keeps its first argument
RKeep(a, b) == a

RMin(a, b) == IF RLess(b, a) THEN b ELSE a

(***************************************************************************)
(* Configuration of the run (conf) and bounds of the model                 *)
(***************************************************************************)
n_people == 3
INTERVENTION_DAY == 5
BURN_IN_DAYS == 2
DAYS_BETWEEN_MESSAGES == 1
UPDATES_PER_DAY == 1
TRACING_N_DAYS_HISTORY == 14
MESSAGE_BUDGET_GAEN == Rat(1, 2)
USE_GAEN == TRUE

\* run(duration): one tick of the loop is 1/TicksPerDay of a day
TicksPerDay == 2

\* bounds of the exploration
MaxTicks == 3
MaxSubmitted == 3

Humans == 1 .. n_people
\* the pseudonyms update messages are keyed by, and the risk-change scores
Uids == {1, 2}
Scores == {1, 2}
\* a run is observed from one of these ticks on, no update message having been
\* generated before: the last tick before the intervention, the last tick
\* before the burn-in has elapsed, and the first tick of the day on which the
\* oldest encounters leave the retention window
StartTicks ==
    {INTERVENTION_DAY * TicksPerDay - 1,
     (INTERVENTION_DAY + BURN_IN_DAYS) * TicksPerDay - 1,
     TRACING_N_DAYS_HISTORY * TicksPerDay}
\* human.time_slots: UPDATES_PER_DAY slots a day for each human
time_slots(h) == {h % TicksPerDay}

\* timedelta.days of a difference of two timestamps
Days(delta) == delta \div TicksPerDay

VARIABLES
    now,                        \* env.timestamp, in ticks since start_time
    pc,                         \* position of City.run in its loop body
    ticks,                      \* loop iterations observed so far
    current_day,                \* City.run local
    last_day_idx,               \* City.run local
    intervention,               \* self.intervention is a Tracing instance
    active,                     \* humans with the app whose time slot this tick is
    risk_change_histogram,      \* Counter: score -> count
    risk_change_histogram_sum,
    sent_messages_by_day,       \* dict: day index -> count
    latest_update_time,         \* contact_book.latest_update_time per human
    global_mailbox,             \* dict: human -> dict: uid -> list of messages
    submitted,                  \* update messages handed to register_new_messages so far
    last_call,                  \* the last register_new_messages call and its decisions
    run_log,                    \* the steps of City.run so far: slots registered, cleanups
    config,                     \* RISK_MODEL, CLIP_RISK, RISK_TRANSMISSION_PROBA of a side simulation
    uid,                        \* dummy_human._uid: whether it is set, and its bits
    first_uid,                  \* the bits of the identifier first drawn
    rotations,                  \* update_uid calls so far
    risk,                       \* dummy_human.risk
    risk_before,                \* human.risk before the last update_risk_encounter
    M,                          \* dummy_human.M, in insertion order
    message,                    \* the message last composed by cur_message
    sender_risk,                \* the risk of the human who composed it
    fused,                      \* update_risk_encounter calls so far
    processed,                  \* the messages passed to add_message_to_cluster so far
    groups_created,             \* groups started by add_message_to_cluster so far
    error,                      \* the exception the last call raised, or "none"
    hd,                         \* the re-inflated humans of the daily loop, by name
    loop,                       \* the position of the daily loop, and how it ended
    query,                      \* the last _check_should_send_message_gaen call and its result
    facility,                   \* the TestFacility: counts of the day, queue, date of the last reset
    last_clear                  \* the last clear_test_queue call and the tests it gave

cityVars == <<now, pc, ticks, current_day, last_day_idx, intervention, active,
              risk_change_histogram, risk_change_histogram_sum,
              sent_messages_by_day, latest_update_time, global_mailbox,
              submitted, last_call, run_log>>

humanVars == <<config, uid, first_uid, rotations, risk, risk_before, M, message,
               sender_risk, fused, processed, groups_created, error>>

loopVars == <<hd, loop>>

gaenVars == <<query>>

testVars == <<facility, last_clear>>

vars == <<cityVars, humanVars, loopVars, gaenVars, testVars>>

(***************************************************************************)
(* dict helpers                                                            *)
(***************************************************************************)
Get(f, k, default) == IF k \in DOMAIN f THEN f[k] ELSE default
Put(f, k, v) == [x \in DOMAIN f \cup {k} |-> IF x = k THEN v ELSE f[x]]
EmptyDict == <<>>

(***************************************************************************)
(* City._check_should_send_message_gaen                                    *)
(***************************************************************************)
SetMax(S) == CHOOSE x \in S : \A y \in S : y <= x

SetMin(S) == CHOOSE x \in S : \A y \in S : x <= y

\* the histogram's keys in increasing order
RECURSIVE SortedAsc(_)
SortedAsc(S) ==
    IF S = {} THEN <<>>
    ELSE <<SetMin(S)>> \o SortedAsc(S \ {SetMin(S)})

\* sorted(..., reverse=True): the histogram's keys in decreasing order
RECURSIVE SortedDesc(_)
SortedDesc(S) ==
    IF S = {} THEN <<>>
    ELSE <<SetMax(S)>> \o SortedDesc(S \ {SetMax(S)})

\* a draw that is below whatever it is compared with
RandomAlwaysBelow(x, coin) == TRUE

\* self.rng.random() < x, the draw being uniform in [0, 1): coin is the
\* outcome when both outcomes are possible
RandomBelow(x, coin) ==
    IF RLeq(One, x) THEN TRUE
    ELSE IF RLeq(x, Zero) THEN FALSE
    ELSE coin

\* the effective budget of the histogram walk
EffectiveBudget ==
    RDivInt(RMul(Rat(DAYS_BETWEEN_MESSAGES, 1), MESSAGE_BUDGET_GAEN), UPDATES_PER_DAY)

\* the loop over scaled_risks
RECURSIVE HistogramWalk(_, _, _, _, _, _, _)
HistogramWalk(keys, i, summed_percentiles, risk_change_score, hist, hist_sum, coin) ==
    IF i > Len(keys) THEN FALSE
    ELSE
        LET rc == keys[i]
            percentile == Rat(hist[rc], hist_sum)
            message_budget == EffectiveBudget
        IN  IF /\ risk_change_score = rc
               /\ RLess(summed_percentiles, message_budget)
               /\ \/ ~RLess(message_budget, RAdd(summed_percentiles, percentile))
                  \/ RandomBelow(RSub(message_budget, summed_percentiles), coin)
            THEN TRUE
            ELSE HistogramWalk(keys, i + 1, RAdd(summed_percentiles, percentile),
                               risk_change_score, hist, hist_sum, coin)

\* a burn-in counted from the start of the run instead of the intervention day
BurnInFromRunStart(current_day_idx) ==
    current_day_idx < BURN_IN_DAYS

\* line 280
BurnInRejects(current_day_idx) ==
    current_day_idx - INTERVENTION_DAY < BURN_IN_DAYS

\* a cooldown that is one day short
CooldownOneDayShort(current_timestamp, latest) ==
    Days(current_timestamp - latest) < DAYS_BETWEEN_MESSAGES - 1

\* line 284
CooldownRejects(current_timestamp, latest) ==
    Days(current_timestamp - latest) < DAYS_BETWEEN_MESSAGES

\* a quota of one message per person, the budget fraction forgotten
QuotaOfWholePopulation(already_sent_messages) ==
    already_sent_messages >= n_people

\* lines 287-288
QuotaRejects(already_sent_messages) ==
    RLeq(RMul(MESSAGE_BUDGET_GAEN, Rat(n_people, 1)), Rat(already_sent_messages, 1))

check_should_send_message_gaen(current_day_idx, current_timestamp, latest, risk_change_score, sent, hist, hist_sum, coin) ==
    IF BurnInRejects(current_day_idx) THEN FALSE
    ELSE IF CooldownRejects(current_timestamp, latest) THEN FALSE
    ELSE IF QuotaRejects(Get(sent, current_day_idx, 0)) THEN FALSE
    ELSE HistogramWalk(SortedDesc(DOMAIN hist), 1, Zero, risk_change_score,
                       hist, hist_sum, coin)

(***************************************************************************)
(* City.register_new_messages                                              *)
(***************************************************************************)
\* the senders of a list of update messages
SendersOf(update_messages) ==
    {update_messages[i].sender : i \in DOMAIN update_messages}

\* a histogram that holds the counts of the current call only
HistogramOfCall(hist, updater_scores) ==
    [s \in {updater_scores[h] : h \in DOMAIN updater_scores} |->
        Cardinality({h \in DOMAIN updater_scores : updater_scores[h] = s})]

\* a histogram that the call does not count its updaters into
HistogramUncounted(hist, updater_scores) == hist

\* lines 215-226: the histogram gets one count per updater, before any decision
HistogramAfter(hist, updater_scores) ==
    [s \in DOMAIN hist \cup {updater_scores[h] : h \in DOMAIN updater_scores} |->
        Get(hist, s, 0) + Cardinality({h \in DOMAIN updater_scores : updater_scores[h] = s})]

\* a deposit that starts the key's list anew
DepositOverwrites(mailbox, m) ==
    Put(mailbox, m.receiver, Put(Get(mailbox, m.receiver, EmptyDict), m.uid, <<m>>))

\* a deposit that stores the message twice
DepositTwice(mailbox, m) ==
    LET personal == Get(mailbox, m.receiver, EmptyDict)
    IN  Put(mailbox, m.receiver,
            Put(personal, m.uid, Append(Append(Get(personal, m.uid, <<>>), m), m)))

\* lines 264-268: append under the message's uid in the receiver's mailbox
Deposit(mailbox, m) ==
    LET personal == Get(mailbox, m.receiver, EmptyDict)
    IN  Put(mailbox, m.receiver, Put(personal, m.uid, Append(Get(personal, m.uid, <<>>), m)))

\* a counter of the whole run, kept under one key
CountSentOfRun(sent, current_day_idx) ==
    Put(sent, 0, Get(sent, 0, 0) + 1)

\* lines 259-261: the counter of the day starts at 0 and is incremented
CountSent(sent, current_day_idx) ==
    Put(sent, current_day_idx, Get(sent, current_day_idx, 0) + 1)

\* a name that is not a key of self.hd
UnknownHuman == 0

\* a lookup that lets the loop go on to the next message
HdLookupSkips(st) == st

\* lines 234-235: self.hd[...] of a name that is not a key raises KeyError
HdLookupFails(st) == [st EXCEPT !.raised = "KeyError"]

\* lines 233-268: the loop over update_messages; st carries what the loop
\* mutates; the loop ends at the first exception
RECURSIVE RegisterLoop(_, _, _, _, _, _, _, _)
RegisterLoop(update_messages, i, st, current_day_idx, current_timestamp, updater_scores, hist, coins) ==
    IF i > Len(update_messages) \/ st.raised # "none" THEN st
    ELSE IF update_messages[i].receiver \notin Humans
    THEN RegisterLoop(update_messages, i + 1, HdLookupFails(st), current_day_idx,
                      current_timestamp, updater_scores, hist, coins)
    ELSE
        LET m == update_messages[i]
            should_send ==
                IF USE_GAEN
                THEN check_should_send_message_gaen(
                        current_day_idx, current_timestamp, st.latest[m.sender],
                        updater_scores[m.sender], st.sent, hist.h, hist.s, coins[i])
                ELSE TRUE
            next ==
                IF should_send
                THEN [sent |-> CountSent(st.sent, current_day_idx),
                      latest |-> [st.latest EXCEPT ![m.sender] =
                                    IF @ > current_timestamp THEN @ ELSE current_timestamp],
                      mailbox |-> Deposit(st.mailbox, m),
                      decisions |-> Append(st.decisions, TRUE),
                      admitted |-> Append(st.admitted, m),
                      raised |-> st.raised]
                ELSE [st EXCEPT !.decisions = Append(@, FALSE)]
        IN  RegisterLoop(update_messages, i + 1, next, current_day_idx,
                         current_timestamp, updater_scores, hist, coins)

register_new_messages(current_day_idx, current_timestamp, update_messages, updater_scores, coins) ==
  IF \E i \in DOMAIN update_messages : update_messages[i].sender \notin Humans
  THEN
    \* line 213: self.hd[m._sender_uid] raises KeyError before anything is changed
    /\ UNCHANGED <<risk_change_histogram, risk_change_histogram_sum,
                   sent_messages_by_day, latest_update_time, global_mailbox>>
    /\ last_call' = [called |-> TRUE, day |-> current_day_idx, time |-> current_timestamp,
                     senders |-> [i \in DOMAIN update_messages |-> update_messages[i].sender],
                     receivers |-> [i \in DOMAIN update_messages |-> update_messages[i].receiver],
                     scores |-> updater_scores,
                     decisions |-> <<>>,
                     admitted |-> <<>>,
                     raised |-> "KeyError",
                     latest_before |-> latest_update_time,
                     sent_before |-> Get(sent_messages_by_day, current_day_idx, 0),
                     hist_before |-> risk_change_histogram]
  ELSE
    \E hist \in {IF USE_GAEN
                  THEN [h |-> HistogramAfter(risk_change_histogram, updater_scores),
                        s |-> risk_change_histogram_sum + Cardinality(DOMAIN updater_scores)]
                  ELSE [h |-> risk_change_histogram, s |-> risk_change_histogram_sum]} :
      \E st \in {RegisterLoop(update_messages, 1,
                              [sent |-> sent_messages_by_day, latest |-> latest_update_time,
                               mailbox |-> global_mailbox, decisions |-> <<>>,
                               admitted |-> <<>>, raised |-> "none"],
                              current_day_idx, current_timestamp, updater_scores, hist, coins)} :
        /\ risk_change_histogram' = hist.h
        /\ risk_change_histogram_sum' = hist.s
        /\ sent_messages_by_day' = st.sent
        /\ latest_update_time' = st.latest
        /\ global_mailbox' = st.mailbox
        /\ last_call' = [called |-> TRUE, day |-> current_day_idx, time |-> current_timestamp,
                         senders |-> [i \in DOMAIN update_messages |-> update_messages[i].sender],
                         receivers |-> [i \in DOMAIN update_messages |-> update_messages[i].receiver],
                         scores |-> updater_scores,
                         decisions |-> st.decisions,
                         admitted |-> st.admitted,
                         raised |-> st.raised,
                         latest_before |-> latest_update_time,
                         sent_before |-> Get(sent_messages_by_day, current_day_idx, 0),
                         hist_before |-> risk_change_histogram]

(***************************************************************************)
(* City.cleanup_global_mailbox                                             *)
(***************************************************************************)
\* the messages held in the global mailbox, each with its place
Held(mailbox) ==
    {<<u, k, i>> \in UNION {UNION {{<<u, k, i>> : i \in DOMAIN mailbox[u][k]} :
                                    k \in DOMAIN mailbox[u]} : u \in DOMAIN mailbox} : TRUE}

Survives(current_timestamp, msg) ==
    Days(current_timestamp - msg.encounter_time) <= TRACING_N_DAYS_HISTORY

\* a rebuilt personal mailbox that keeps every key, also with an empty list
CleanPersonalKeepingKeys(current_timestamp, personal_mailbox) ==
    [k \in DOMAIN personal_mailbox |->
        SelectSeq(personal_mailbox[k], LAMBDA m : Survives(current_timestamp, m))]

\* lines 187-194: the keys and messages of one user that survive
CleanPersonal(current_timestamp, personal_mailbox) ==
    LET kept == {k \in DOMAIN personal_mailbox :
                    \E i \in DOMAIN personal_mailbox[k] :
                        Survives(current_timestamp, personal_mailbox[k][i])}
    IN  [k \in kept |->
            SelectSeq(personal_mailbox[k], LAMBDA m : Survives(current_timestamp, m))]

cleanup_global_mailbox(current_timestamp) ==
    global_mailbox' = [u \in DOMAIN global_mailbox |->
                          CleanPersonal(current_timestamp, global_mailbox[u])]

(***************************************************************************)
(* City.run: one iteration of the loop per tick                            *)
(***************************************************************************)
\* no register_new_messages call in the current tick so far
NoCall ==
    [called |-> FALSE, day |-> 0, time |-> 0, senders |-> <<>>, receivers |-> <<>>,
     scores |-> EmptyDict, decisions |-> <<>>, admitted |-> <<>>, raised |-> "none", latest_before |-> [h \in Humans |-> 0], sent_before |-> 0,
     hist_before |-> EmptyDict]

\* the receiver of the update messages a human generates in this model: the
\* contact it met
ContactOf(h) == (h % n_people) + 1

\* the update messages one human may generate in a slot
MessagesOf(h, current_timestamp) ==
    {[sender |-> h, receiver |-> ContactOf(h), uid |-> u, encounter_time |-> e] :
        u \in Uids, e \in {0, current_timestamp}}

\* lists of exactly len messages of human h
ListsOf(h, current_timestamp, len) ==
    [1 .. len -> MessagesOf(h, current_timestamp)]

\* lines 760-794: update_messages is built human by human, in the order of
\* self.humans, from the humans whose slot it is
RECURSIVE Batches(_, _, _, _)
Batches(h, act, current_timestamp, k) ==
    IF h > n_people THEN {<<>>}
    ELSE IF h \notin act THEN Batches(h + 1, act, current_timestamp, k)
    ELSE UNION {{own \o rest : own \in ListsOf(h, current_timestamp, len),
                                rest \in Batches(h + 1, act, current_timestamp, k - len)} :
                len \in 0 .. k}

\* lines 700-740: the day index, the intervention, and the lightweight jobs of
\* every human whose slot it is, which consume (pop) the human's mailbox
RunTimeslotJobs ==
    /\ pc = "jobs"
    /\ current_day' = Days(now)
    /\ intervention' = (intervention \/ Days(now) = INTERVENTION_DAY)
    /\ \E act \in SUBSET {h \in Humans : (now % TicksPerDay) \in time_slots(h)} :
        /\ (act # {}) => intervention'
        /\ active' = act
        /\ global_mailbox' = [u \in DOMAIN global_mailbox \cup act |->
                                 IF u \in act THEN EmptyDict ELSE global_mailbox[u]]
    /\ pc' = "register"
    /\ UNCHANGED <<now, ticks, last_day_idx, risk_change_histogram,
                   risk_change_histogram_sum, sent_messages_by_day,
                   latest_update_time, submitted, last_call, run_log>>
    /\ UNCHANGED humanVars
    /\ UNCHANGED loopVars
    /\ UNCHANGED gaenVars
    /\ UNCHANGED testVars

\* a loop that runs the lightweight jobs again after the registration
AfterRegisteringJobsAgain == "jobs"

\* line 804: after the registration the loop yields until the next tick
AfterRegistering == "timeout"

\* lines 742-802 with a tracing intervention: the active humans' update
\* messages are registered
RegisterNewMessages ==
    /\ pc = "register"
    /\ intervention
    /\ \E update_messages \in Batches(1, active, now, MaxSubmitted - submitted) :
        /\ \E updater_scores \in [SendersOf(update_messages) -> Scores],
              coins \in [DOMAIN update_messages -> BOOLEAN] :
              register_new_messages(current_day, now, update_messages, updater_scores, coins)
        /\ submitted' = submitted + Len(update_messages)
    /\ run_log' = Append(run_log, [op |-> "register", at |-> now, day |-> current_day])
    /\ pc' = AfterRegistering
    /\ active' = {}
    /\ UNCHANGED <<now, ticks, current_day, last_day_idx, intervention>>
    /\ UNCHANGED humanVars
    /\ UNCHANGED loopVars
    /\ UNCHANGED gaenVars
    /\ UNCHANGED testVars

\* the lists of update messages with one name, of a sender or of a receiver,
\* that is not a known human
StrayBatches(update_messages) ==
    {[update_messages EXCEPT ![i].sender = UnknownHuman] : i \in DOMAIN update_messages}
        \cup {[update_messages EXCEPT ![i].receiver = UnknownHuman] : i \in DOMAIN update_messages}

\* lines 796-802 with an update message of an unknown sender or receiver: the
\* exception of register_new_messages ends City.run
RegisterStrayMessages ==
    /\ pc = "register"
    /\ intervention
    /\ \E well_formed \in Batches(1, active, now, MaxSubmitted - submitted) :
        \E update_messages \in StrayBatches(well_formed) :
            /\ \E updater_scores \in [SendersOf(update_messages) \cap Humans -> Scores],
                  coins \in [DOMAIN update_messages -> BOOLEAN] :
                  register_new_messages(current_day, now, update_messages, updater_scores, coins)
            /\ submitted' = submitted + Len(update_messages)
    /\ run_log' = Append(run_log, [op |-> "raise", at |-> now, day |-> current_day])
    /\ pc' = "aborted"
    /\ active' = {}
    /\ UNCHANGED <<now, ticks, current_day, last_day_idx, intervention>>
    /\ UNCHANGED humanVars
    /\ UNCHANGED loopVars
    /\ UNCHANGED gaenVars
    /\ UNCHANGED testVars

\* line 742 without an intervention: nothing is registered
NoIntervention ==
    /\ pc = "register"
    /\ ~intervention
    /\ pc' = "timeout"
    /\ active' = {}
    /\ run_log' = Append(run_log, [op |-> "skip", at |-> now, day |-> current_day])
    /\ UNCHANGED <<now, ticks, current_day, last_day_idx, intervention,
                   risk_change_histogram, risk_change_histogram_sum,
                   sent_messages_by_day, latest_update_time, global_mailbox,
                   submitted, last_call>>
    /\ UNCHANGED humanVars
    /\ UNCHANGED loopVars
    /\ UNCHANGED gaenVars
    /\ UNCHANGED testVars

\* a rollover test that passes on every tick
DayAlwaysChanged(current, last) == TRUE

\* line 806: the day index differs from the one of the last rollover
DayChanged(current, last) == current # last

\* lines 804-816: the clock advances by one tick; on the first tick of a new
\* day index the mailbox is cleaned up at the new timestamp
DayRollover ==
    /\ pc = "timeout"
    /\ ticks < MaxTicks
    /\ now' = now + 1
    /\ ticks' = ticks + 1
    /\ \/ /\ DayChanged(current_day, last_day_idx)
          /\ last_day_idx' = current_day
          /\ cleanup_global_mailbox(now')
          /\ run_log' = Append(run_log, [op |-> "cleanup", at |-> now', day |-> current_day,
                                         held |-> Cardinality(Held(global_mailbox))])
       \/ /\ ~DayChanged(current_day, last_day_idx)
          /\ UNCHANGED <<last_day_idx, global_mailbox, run_log>>
    /\ pc' = "jobs"
    /\ last_call' = NoCall
    /\ UNCHANGED <<current_day, intervention, active, risk_change_histogram,
                   risk_change_histogram_sum, sent_messages_by_day,
                   latest_update_time, submitted>>
    /\ UNCHANGED humanVars
    /\ UNCHANGED loopVars
    /\ UNCHANGED gaenVars
    /\ UNCHANGED testVars

\* dummy_human.__init__ (no _uid attribute yet) with a configuration
NoMessage == [uid |-> <<>>, risk |-> <<>>, time |-> 0, unobs_id |-> 0]

NewHuman(cfg, start_risk) ==
    /\ config = cfg
    /\ uid = [set |-> FALSE, bits |-> <<>>]
    /\ first_uid = <<>>
    /\ rotations = 0
    /\ risk = start_risk
    /\ risk_before = start_risk
    /\ M = <<>>
    /\ message = NoMessage
    /\ sender_risk = Zero
    /\ fused = 0
    /\ processed = <<>>
    /\ groups_created = 0
    /\ error = "none"

DefaultConfig ==
    [RISK_MODEL |-> "yoshua", CLIP_RISK |-> FALSE, RISK_TRANSMISSION_PROBA |-> Rat(1, 2)]

\* the humans of the daily loop, in the order of hd.items()
LoopHumans == 1 .. 2

\* lines 198-200: hd[human_id] = dummy_human(name=human_id, rng=rng); no
\* encounter_time has been assigned
NewLoop ==
    /\ hd = [h \in LoopHumans |->
                [uid |-> [set |-> FALSE, bits |-> <<>>], uid_day |-> -1, rotations |-> 0,
                 risk |-> Zero, messages |-> <<>>, reads |-> <<>>, M |-> <<>>,
                 after_read |-> [day |-> -1, is_quarantined |-> FALSE, symptoms |-> {},
                                risk |-> Zero]]]
    /\ loop = [current_day |-> 0, next |-> 1, encounter_time |-> -1, error |-> "none",
               composed |-> <<>>]

\* no call of _check_should_send_message_gaen on its own so far
NoQuery ==
    [called |-> FALSE, day |-> 0, time |-> 0, latest |-> 0, score |-> 0, sent |-> 0,
     hist |-> EmptyDict, hist_sum |-> 0, coin |-> FALSE, result |-> FALSE]

NewQuery == query = NoQuery

\* City.__init__ line 131: the test types sorted by their preference
test_type_preference == <<"lab", "antigen">>
TestTypes == {test_type_preference[i] : i \in DOMAIN test_type_preference}

\* self.env.timestamp.date()
Date(t) == Days(t)

\* no clear_test_queue call so far
NoClear ==
    [called |-> FALSE, new_date |-> FALSE, count_before |-> [t \in TestTypes |-> 0],
     queue_reset |-> <<>>, test_triage |-> <<>>, tested |-> <<>>]

\* TestFacility.__init__ lines 833-841
NewFacility ==
    /\ facility = [test_count_today |-> [t \in TestTypes |-> 0],
                   test_queue |-> <<>>,
                   last_date_to_check_tests |-> Date(0)]
    /\ last_clear = NoClear

\* City.__init__, before any tick
NewCity(t0) ==
        /\ now = t0
        /\ pc = "jobs"
        /\ ticks = 0
        /\ current_day = Days(t0 - 1)
        /\ last_day_idx = Days(t0 - 1)
        /\ intervention = (Days(t0 - 1) >= INTERVENTION_DAY)
        /\ active = {}
        /\ risk_change_histogram = EmptyDict
        /\ risk_change_histogram_sum = 0
        /\ sent_messages_by_day = EmptyDict
        /\ latest_update_time = [h \in Humans |-> 0]
        /\ global_mailbox = EmptyDict
        /\ submitted = 0
        /\ last_call = NoCall
        /\ run_log = <<>>

\* City.__init__, then the run up to tick t0 with no human having generated
\* an update message: the locals of City.run are as the previous iteration
\* left them
Init ==
    /\ \E t0 \in StartTicks : NewCity(t0)
    /\ NewHuman(DefaultConfig, Zero)
    /\ NewLoop
    /\ NewQuery
    /\ NewFacility

Next ==
    \/ RunTimeslotJobs
    \/ RegisterNewMessages
    \/ RegisterStrayMessages
    \/ NoIntervention
    \/ DayRollover

Spec == Init /\ [][Next]_vars

(***************************************************************************)
(* src/risk_prediction.py: identity codec                                  *)
(***************************************************************************)
\* the width of the rolling identifier and of the coded risk
UID_BITS == 4
RISK_BITS == 4
\* bounds of the exploration of one dummy_human
MaxRotations == 5
MaxFusions == 2
MaxClustered == 3

Bits == {0, 1}
RECURSIVE Pow2(_)
Pow2(n) == IF n = 0 THEN 1 ELSE 2 * Pow2(n - 1)

\* bitarray.pop(): removes the last item
Pop(bits) == SubSeq(bits, 1, Len(bits) - 1)

\* a rotation that appends without removing
update_uid_keeping_all(u, draw) ==
    IF u.set
    THEN [set |-> TRUE, bits |-> Append(u.bits, draw[1])]
    ELSE [set |-> TRUE, bits |-> draw]

\* dummy_human.update_uid; draw is what self.rng.choice returns
update_uid(u, draw) ==
    IF u.set
    THEN [set |-> TRUE, bits |-> Append(Pop(u.bits), draw[1])]
    ELSE [set |-> TRUE, bits |-> draw]

\* round(x) of a non-negative x: to the nearest integer, halves to the even one
Round(x) ==
    LET fl == x.n \div x.d
        twice == 2 * (x.n - fl * x.d)
    IN  IF twice < x.d THEN fl
        ELSE IF twice > x.d THEN fl + 1
        ELSE IF fl % 2 = 0 THEN fl ELSE fl + 1

\* the binary digits of k, most significant first, on at least width digits
RECURSIVE ToBits(_, _)
ToBits(k, width) ==
    IF k < 2 /\ width <= 1 THEN <<k>>
    ELSE Append(ToBits(k \div 2, width - 1), k % 2)

\* int(bstr, 2)
RECURSIVE FromBits(_)
FromBits(bits) ==
    IF Len(bits) = 0 THEN 0
    ELSE 2 * FromBits(Pop(bits)) + bits[Len(bits)]

\* utils.float_to_binary(x, m, n): x scaled by 2^n, as m + n binary digits
float_to_binary(x, m, n) == ToBits(Round(RMul(x, Rat(Pow2(n), 1))), m + n)

\* utils.binary_to_float(bstr, m, n)
binary_to_float(bits, m, n) == Rat(FromBits(bits), Pow2(n))

\* a quantization without the case of risk 1.0
message_risk_unguarded(r) == float_to_binary(r, 0, RISK_BITS)

\* dummy_human.message_risk
message_risk(r) ==
    IF r = One THEN <<1, 1, 1, 1>>
    ELSE float_to_binary(r, 0, RISK_BITS)

\* dummy_human.cur_message
cur_message(u, r, time, name) ==
    [uid |-> u, risk |-> message_risk(r), time |-> time, unobs_id |-> name]

\* the decoding of message[1] in update_risk_encounter and add_message_to_cluster
MessageRisk(msg) == binary_to_float(msg.risk, 0, RISK_BITS)

\* utils._encode_message and utils._decode_message
encode_message(msg) == <<msg.uid, msg.risk, msg.time, msg.unobs_id>>
decode_message(key) == [uid |-> key[1], risk |-> key[2], time |-> key[3], unobs_id |-> key[4]]

(***************************************************************************)
(* src/risk_prediction.py: the table M, an insertion-ordered dict          *)
(***************************************************************************)
HasKey(Mtab, key) == \E i \in DOMAIN Mtab : Mtab[i].key = key
IndexOf(Mtab, key) == CHOOSE i \in DOMAIN Mtab : Mtab[i].key = key

\* human.M[key] = value
SetEntry(Mtab, key, value) ==
    IF HasKey(Mtab, key)
    THEN [Mtab EXCEPT ![IndexOf(Mtab, key)] = [key |-> key, value |-> value]]
    ELSE Append(Mtab, [key |-> key, value |-> value])

(***************************************************************************)
(* src/risk_prediction.py: update_risk_encounter                           *)
(***************************************************************************)
\* an update by the difference of the risks, whatever their order
YoshuaDifference(r, m_risk, proba) == RMul(RSub(m_risk, r), proba)

\* an update that is not scaled by what is left up to 1
YoshuaUndamped(r, m_risk, proba) ==
    IF RLess(r, m_risk) THEN RMul(m_risk, proba) ELSE Zero

\* lines 126-128
YoshuaUpdate(r, m_risk, proba) ==
    IF RLess(r, m_risk)
    THEN RMul(RSub(m_risk, RMul(m_risk, r)), proba)
    ELSE Zero

\* an additive update damped by the current risk
LenkaDamped(r, m_risk, proba) == RMul(RSub(m_risk, RMul(m_risk, r)), proba)

\* lines 129-130
LenkaUpdate(r, m_risk, proba) == RMul(m_risk, proba)

\* an update that takes a known message for a new one
EilifFresh(m_risk, entry, proba) == RMul(m_risk, proba)

\* lines 138-140: the update for a message whose key is in human.M
EilifUpdate(m_risk, entry, proba) ==
    RAdd(RMul(RSub(m_risk, entry.previous_risk), proba),
         RMul(entry.previous_risk, entry.carry_over_transmission_proba))

\* lines 118-150; h is [risk, M]; the result carries the exception raised
update_risk_encounter(h, msg, cfg) ==
    LET m_risk == MessageRisk(msg)
        proba == cfg.RISK_TRANSMISSION_PROBA
        msg_enc == encode_message(msg)
        seen == HasKey(h.M, msg_enc)
        entry == h.M[IndexOf(h.M, msg_enc)].value
        update ==
            IF cfg.RISK_MODEL = "yoshua" THEN YoshuaUpdate(h.risk, m_risk, proba)
            ELSE IF cfg.RISK_MODEL = "lenka" THEN LenkaUpdate(h.risk, m_risk, proba)
            ELSE IF cfg.RISK_MODEL = "eilif"
                 THEN IF ~seen THEN RMul(m_risk, proba)
                      ELSE EilifUpdate(m_risk, entry, proba)
            ELSE Zero
        added == RAdd(h.risk, update)
        new_risk == IF cfg.CLIP_RISK THEN RMin(added, One) ELSE added
    IN  IF cfg.RISK_MODEL = "eilif" /\ ~seen
        THEN [risk |-> h.risk, M |-> h.M, error |-> "KeyError"]
        ELSE IF cfg.RISK_MODEL = "eilif"
        THEN [risk |-> new_risk,
              M |-> SetEntry(h.M, msg_enc,
                        [assignment |-> entry.assignment,
                         previous_risk |-> m_risk,
                         carry_over_transmission_proba |-> RMul(proba, RSub(One, update))]),
              error |-> "none"]
        ELSE [risk |-> new_risk, M |-> h.M, error |-> "none"]

(***************************************************************************)
(* src/risk_prediction.py: add_message_to_cluster                          *)
(***************************************************************************)
\* datetime.day: the day of the month, months of MonthLength days
MonthLength == 30
DayOfMonth(t) == (t % MonthLength) + 1

Prefix(bits, n) == SubSeq(bits, 1, n)

\* lines 97-104: the score of previous message m against m_i, -1 for none
ScoreOf(m_i, m) ==
    IF m_i.uid = m.uid /\ DayOfMonth(m_i.time) = DayOfMonth(m.time) THEN 3
    ELSE IF Prefix(m_i.uid, 3) = Prefix(m.uid, 3)
            /\ DayOfMonth(m_i.time) - 1 = DayOfMonth(m.time) THEN 2
    ELSE IF Prefix(m_i.uid, 2) = Prefix(m.uid, 2)
            /\ DayOfMonth(m_i.time) - 2 = DayOfMonth(m.time) THEN 1
    ELSE IF Prefix(m_i.uid, 1) = Prefix(m.uid, 1)
            /\ DayOfMonth(m_i.time) - 2 = DayOfMonth(m.time) THEN 0
    ELSE -1

\* a choice among the best candidates that takes the one inserted last
LastBest(Mtab, m_i) ==
    LET sc(i) == ScoreOf(m_i, decode_message(Mtab[i].key))
        cands == {i \in DOMAIN Mtab : sc(i) >= 0}
    IN  IF cands = {} THEN 0
        ELSE CHOOSE i \in cands :
                /\ \A j \in cands : sc(j) <= sc(i)
                /\ \A j \in cands : sc(j) = sc(i) => j <= i

\* line 107: max(scores.items(), key=itemgetter(1)): the first entry, in
\* insertion order, whose score is the largest; 0 when scores is empty
FirstBest(Mtab, m_i) ==
    LET sc(i) == ScoreOf(m_i, decode_message(Mtab[i].key))
        cands == {i \in DOMAIN Mtab : sc(i) >= 0}
    IN  IF cands = {} THEN 0
        ELSE CHOOSE i \in cands :
                /\ \A j \in cands : sc(j) <= sc(i)
                /\ \A j \in cands : sc(j) = sc(i) => i <= j

\* an id of a started group that counts the entries of the table
NewGroupIdBySize(Mtab) == Len(Mtab)

\* lines 110-114: the id of a group that is started
NewGroupId(Mtab) ==
    IF Len(Mtab) = 0 THEN 0
    ELSE SetMax({Mtab[i].value.assignment : i \in DOMAIN Mtab}) + 1

\* a clustering that merges a matched message into its neighbour's entry
add_message_to_cluster_merging(Mtab, m_i, proba) ==
    LET best == FirstBest(Mtab, m_i)
        m_risk == MessageRisk(m_i)
    IN  IF best # 0
        THEN [Mtab EXCEPT ![best].value.previous_risk = m_risk]
        ELSE SetEntry(Mtab, encode_message(m_i),
                      [assignment |-> NewGroupId(Mtab), previous_risk |-> m_risk,
                       carry_over_transmission_proba |-> proba])

\* a clustering that leaves the entry of a message already in the table
add_message_to_cluster_keeping(Mtab, m_i, proba) ==
    LET best == FirstBest(Mtab, m_i)
        m_risk == MessageRisk(m_i)
        group == IF best # 0 THEN Mtab[best].value.assignment ELSE NewGroupId(Mtab)
    IN  IF HasKey(Mtab, encode_message(m_i)) THEN Mtab
        ELSE SetEntry(Mtab, encode_message(m_i),
                      [assignment |-> group, previous_risk |-> m_risk,
                       carry_over_transmission_proba |-> proba])

\* lines 85-115
add_message_to_cluster(Mtab, m_i, proba) ==
    LET best == FirstBest(Mtab, m_i)
        m_risk == MessageRisk(m_i)
        group == IF best # 0 THEN Mtab[best].value.assignment ELSE NewGroupId(Mtab)
    IN  SetEntry(Mtab, encode_message(m_i),
                 [assignment |-> group, previous_risk |-> m_risk,
                  carry_over_transmission_proba |-> proba])

(***************************************************************************)
(* Side simulation of one dummy_human: the operations applied to it        *)
(***************************************************************************)
\* the configurations of a side simulation
Configs ==
    [RISK_MODEL : {"yoshua", "lenka", "eilif"}, CLIP_RISK : BOOLEAN,
     RISK_TRANSMISSION_PROBA : {Rat(1, 2), One}]

\* the risks a human starts a fusion with
StartRisks == {Zero, Rat(1, 4), Rat(9, 10), One}

\* the risks of the humans who compose messages: the multiples of the
\* quantization step and two values in between
SenderRisks == {Rat(k, 16) : k \in 0 .. 16} \cup {Rat(1, 32), Rat(31, 32)}

\* the city is not part of a side simulation
IdleCity == NewCity(0)

UpdateUid ==
    /\ rotations < MaxRotations
    /\ \E draw \in (IF uid.set THEN [1 .. 1 -> Bits] ELSE [1 .. UID_BITS -> Bits]) :
        /\ uid' = update_uid(uid, draw)
        /\ first_uid' = IF uid.set THEN first_uid ELSE draw
    /\ rotations' = rotations + 1
    /\ UNCHANGED <<config, risk, risk_before, M, message, sender_risk, fused,
                   processed, groups_created, error>>
    /\ UNCHANGED cityVars
    /\ UNCHANGED loopVars
    /\ UNCHANGED gaenVars
    /\ UNCHANGED testVars

InitUid ==
    /\ IdleCity
    /\ NewHuman(DefaultConfig, Zero)
    /\ NewLoop
    /\ NewQuery
    /\ NewFacility

NextUid == UpdateUid

SpecUid == InitUid /\ [][NextUid]_vars

\* another human, of risk v, composes a message at an encounter
CurMessage ==
    /\ fused < MaxFusions
    /\ \E v \in SenderRisks, t \in {0, 1} :
        /\ message' = cur_message(<<0, 1, 0, 1>>, v, t, 1)
        /\ sender_risk' = v
    /\ UNCHANGED <<config, uid, first_uid, rotations, risk, risk_before, M, fused,
                   processed, groups_created, error>>
    /\ UNCHANGED cityVars
    /\ UNCHANGED loopVars
    /\ UNCHANGED gaenVars
    /\ UNCHANGED testVars

\* the human fuses the message
UpdateRiskEncounter ==
    /\ fused < MaxFusions
    /\ message # NoMessage
    /\ \E res \in {update_risk_encounter([risk |-> risk, M |-> M], message, config)} :
        /\ risk' = res.risk
        /\ M' = res.M
        /\ error' = res.error
    /\ risk_before' = risk
    /\ fused' = fused + 1
    /\ UNCHANGED <<config, uid, first_uid, rotations, message, sender_risk,
                   processed, groups_created>>
    /\ UNCHANGED cityVars
    /\ UNCHANGED loopVars
    /\ UNCHANGED gaenVars
    /\ UNCHANGED testVars

InitRisk ==
    /\ IdleCity
    /\ \E cfg \in Configs, r \in StartRisks : NewHuman(cfg, r)
    /\ NewLoop
    /\ NewQuery
    /\ NewFacility

NextRisk ==
    \/ CurMessage
    \/ UpdateRiskEncounter

SpecRisk == InitRisk /\ [][NextRisk]_vars

\* the messages a human clusters
ClusterUids == {<<0, 0, 0, 0>>, <<0, 0, 0, 1>>, <<0, 0, 1, 1>>, <<0, 1, 1, 1>>}
ClusterTimes == {29, 30, 31, 59}
ClusterMessages ==
    {[uid |-> u, risk |-> <<1, 0, 0, 0>>, time |-> t, unobs_id |-> name] :
        u \in ClusterUids, t \in ClusterTimes, name \in {1, 2}}

AddMessageToCluster ==
    /\ Len(processed) < MaxClustered
    /\ \E m_i \in ClusterMessages :
        /\ M' = add_message_to_cluster(M, m_i, config.RISK_TRANSMISSION_PROBA)
        /\ groups_created' = IF FirstBest(M, m_i) = 0 THEN groups_created + 1
                             ELSE groups_created
        /\ processed' = Append(processed, m_i)
        /\ message' = m_i
    /\ UNCHANGED <<config, uid, first_uid, rotations, risk, risk_before,
                   sender_risk, fused, error>>
    /\ UNCHANGED cityVars
    /\ UNCHANGED loopVars
    /\ UNCHANGED gaenVars
    /\ UNCHANGED testVars

InitCluster ==
    /\ IdleCity
    /\ NewHuman([DefaultConfig EXCEPT !.RISK_MODEL = "eilif"], Zero)
    /\ NewLoop
    /\ NewQuery
    /\ NewFacility

NextCluster == AddMessageToCluster

SpecCluster == InitCluster /\ [][NextCluster]_vars

\* line 160: the models that cluster the messages they read
METHOD_CLUSTERING_MAP(model) == model = "eilif"

\* the messages a human reads: composed by humans of risk 0, 1/2 and 1
FusionMessages ==
    {cur_message(u, v, t, 1) :
        u \in {<<0, 0, 0, 0>>, <<0, 0, 0, 1>>}, v \in {Zero, Rat(1, 2), One}, t \in {29, 30}}

\* lines 212-216: one message of human.messages is read: it is clustered if
\* the model asks for it, then fused
ReadMessage ==
    /\ fused < MaxFusions
    /\ \E m_i \in FusionMessages :
        \E table \in {IF METHOD_CLUSTERING_MAP(config.RISK_MODEL)
                       THEN add_message_to_cluster(M, m_i, config.RISK_TRANSMISSION_PROBA)
                       ELSE M} :
          \E res \in {update_risk_encounter([risk |-> risk, M |-> table], m_i, config)} :
            /\ risk' = res.risk
            /\ M' = res.M
            /\ error' = res.error
            /\ message' = m_i
            /\ processed' = IF METHOD_CLUSTERING_MAP(config.RISK_MODEL)
                            THEN Append(processed, m_i) ELSE processed
            /\ groups_created' = IF METHOD_CLUSTERING_MAP(config.RISK_MODEL)
                                    /\ FirstBest(M, m_i) = 0
                                 THEN groups_created + 1 ELSE groups_created
    /\ risk_before' = risk
    /\ fused' = fused + 1
    /\ UNCHANGED <<config, uid, first_uid, rotations, sender_risk>>
    /\ UNCHANGED cityVars
    /\ UNCHANGED loopVars
    /\ UNCHANGED gaenVars
    /\ UNCHANGED testVars

InitFusion ==
    /\ IdleCity
    /\ \E cfg \in Configs, r \in StartRisks : NewHuman(cfg, r)
    /\ NewLoop
    /\ NewQuery
    /\ NewFacility

NextFusion ==
    \/ ReadMessage
    \/ UpdateRiskEncounter

SpecFusion == InitFusion /\ [][NextFusion]_vars

(***************************************************************************)
(* src/risk_prediction.py: the daily loop over the re-inflated humans      *)
(***************************************************************************)
\* range(days): the days the loop goes through
MaxDays == 3

\* the identifiers self.rng.choice([True, False], 4) draws in the runs observed
FirstDraws == {<<0, 0, 0, 0>>, <<1, 0, 1, 1>>}

\* what the health model reports of a human on a day
HealthInputs ==
    {[is_quarantined |-> TRUE, symptoms |-> {}],
     [is_quarantined |-> FALSE, symptoms |-> {"mild"}],
     [is_quarantined |-> FALSE, symptoms |-> {"mild", "moderate", "severe"}],
     [is_quarantined |-> FALSE, symptoms |-> {}]}

\* the configurations of the daily loop
LoopConfigs == {cfg \in Configs : cfg.RISK_TRANSMISSION_PROBA = Rat(1, 2)}

\* line 230: datetime.timedelta(days=14)
UPDATE_WINDOW_DAYS == 14

\* lines 67-82
risk_for_symptoms(health) ==
    IF health.is_quarantined THEN One
    ELSE IF "severe" \in health.symptoms THEN Rat(3, 4)
    ELSE IF "moderate" \in health.symptoms THEN Rat(1, 2)
    ELSE IF "mild" \in health.symptoms THEN Rat(1, 4)
    ELSE Zero

\* lines 212-216: the messages of human.messages are read in order, each
\* clustered if the model asks for it, then fused; h is [risk, M, error]
RECURSIVE ReadMessages(_, _, _, _)
ReadMessages(h, messages, i, cfg) ==
    IF i > Len(messages) \/ h.error # "none" THEN h
    ELSE
        LET table == IF METHOD_CLUSTERING_MAP(cfg.RISK_MODEL)
                     THEN add_message_to_cluster(h.M, messages[i], cfg.RISK_TRANSMISSION_PROBA)
                     ELSE h.M
        IN  ReadMessages(update_risk_encounter([risk |-> h.risk, M |-> table], messages[i], cfg),
                         messages, i + 1, cfg)

\* lines 219-225: the message of each human encountered is appended; acc is
\* [messages, encounter_time, error, composed]; self.uid of a human whose
\* update_uid was never called raises AttributeError
RECURSIVE Encounters(_, _, _, _, _)
Encounters(people, acc, encountered, i, day) ==
    IF i > Len(encountered) \/ acc.error # "none" THEN acc
    ELSE
        LET other == people[encountered[i]]
        IN  IF ~other.uid.set
            THEN [acc EXCEPT !.encounter_time = day, !.error = "AttributeError"]
            ELSE Encounters(people,
                    [messages |-> Append(acc.messages,
                                    cur_message(other.uid.bits, other.risk, day, encountered[i])),
                     encounter_time |-> day,
                     error |-> "none",
                     composed |-> Append(acc.composed,
                                    [by |-> encountered[i], day |-> day,
                                     uid_day |-> other.uid_day])],
                    encountered, i + 1, day)

\* lines 228-231: humans is not defined: the first message within the window
\* raises NameError, and so does encounter_time when it was never assigned
UpdatesRaise(start_risk, new_risk, messages, encounter_time) ==
    /\ \/ RLess(RAdd(new_risk, Rat(1, 10)), start_risk)
       \/ RLess(start_risk, RSub(new_risk, Rat(1, 10)))
    /\ Len(messages) > 0
    /\ \/ encounter_time = -1
       \/ \E i \in DOMAIN messages : encounter_time - messages[i].time < UPDATE_WINDOW_DAYS

\* lines 228-234: the updates are sent if the risk changed; the human's
\* record and the loop's variables at the end of the body
after_updates(people, h, day, health, updated, met, raised) ==
    [people |-> [people EXCEPT ![h] =
                    [updated EXCEPT
                        !.messages = met.messages,
                        !.reads = @ \o [i \in 1 .. (Len(met.messages) - Len(updated.messages)) |-> 0],
                        !.after_read = [day |-> day, is_quarantined |-> health.is_quarantined,
                                        symptoms |-> health.symptoms,
                                        risk |-> updated.risk]]],
     encounter_time |-> met.encounter_time,
     error |-> raised,
     composed |-> met.composed]

\* lines 219-231: the encounters of the day, then the test of the change
after_encounters(people, h, day, health, start_risk, updated, met) ==
    after_updates(people, h, day, health, updated, met,
                  IF met.error # "none" THEN met.error
                  ELSE IF UpdatesRaise(start_risk, updated.risk, met.messages, met.encounter_time)
                  THEN "NameError"
                  ELSE "none")

\* lines 206-225: the identifier is rotated, the risk is the one read from the
\* symptoms and the old messages, then the human goes about the day
after_reading(people, h, day, encounter_time, draw, health, encountered, read, updated) ==
    after_encounters(people, h, day, health, people[h].risk, updated,
                     Encounters([people EXCEPT ![h] = updated],
                                [messages |-> updated.messages, encounter_time |-> encounter_time,
                                 error |-> read.error, composed |-> <<>>],
                                encountered, 1, day))

\* lines 206-216: update_uid, risk_for_symptoms and the messages read
rotate_and_read(me, day, draw, read) ==
    [me EXCEPT !.uid = update_uid(me.uid, draw),
               !.uid_day = day,
               !.rotations = @ + 1,
               !.risk = read.risk,
               !.M = read.M,
               !.reads = [i \in DOMAIN @ |-> @[i] + 1]]

\* lines 205-234: the body of the loop for human h on a day
read_then(people, h, day, encounter_time, draw, health, encountered, read) ==
    after_reading(people, h, day, encounter_time, draw, health, encountered, read,
                  rotate_and_read(people[h], day, draw, read))

\* a body of the loop that keeps the risk of the day before when it is
\* above what the symptoms give
daily_body_carrying(people, h, day, encounter_time, cfg, draw, health, encountered) ==
    read_then(people, h, day, encounter_time, draw, health, encountered,
              ReadMessages([risk |-> IF RLess(risk_for_symptoms(health), people[h].risk)
                                     THEN people[h].risk ELSE risk_for_symptoms(health),
                            M |-> people[h].M, error |-> "none"],
                           people[h].messages, 1, cfg))

daily_body(people, h, day, encounter_time, cfg, draw, health, encountered) ==
    read_then(people, h, day, encounter_time, draw, health, encountered,
              ReadMessages([risk |-> risk_for_symptoms(health), M |-> people[h].M, error |-> "none"],
                           people[h].messages, 1, cfg))

\* lines 204-234: the loop body runs for the next human of the day; after the
\* last human the next day starts; an exception ends the loop
DailyBody ==
    /\ loop.error = "none"
    /\ loop.current_day < MaxDays
    /\ \E draw \in (IF hd[loop.next].uid.set THEN [1 .. 1 -> Bits] ELSE FirstDraws),
          health \in HealthInputs,
          encountered \in {<<>>} \cup {<<e>> : e \in LoopHumans \ {loop.next}} :
        \E res \in {daily_body(hd, loop.next, loop.current_day, loop.encounter_time,
                                config, draw, health, encountered)} :
            /\ hd' = res.people
            /\ loop' = [current_day |-> IF res.error = "none" /\ loop.next = Cardinality(LoopHumans)
                                        THEN loop.current_day + 1 ELSE loop.current_day,
                        next |-> IF res.error # "none" THEN loop.next
                                 ELSE IF loop.next = Cardinality(LoopHumans) THEN 1
                                 ELSE loop.next + 1,
                        encounter_time |-> res.encounter_time,
                        error |-> res.error,
                        composed |-> res.composed]
    /\ UNCHANGED cityVars
    /\ UNCHANGED humanVars
    /\ UNCHANGED gaenVars
    /\ UNCHANGED testVars

InitLoop ==
    /\ IdleCity
    /\ \E cfg \in LoopConfigs : NewHuman(cfg, Zero)
    /\ NewLoop
    /\ NewQuery
    /\ NewFacility

NextLoop == DailyBody

SpecLoop == InitLoop /\ [][NextLoop]_vars

(***************************************************************************)
(* City._check_should_send_message_gaen on its own: one decision, for a    *)
(* person whose score is in the histogram                                  *)
(***************************************************************************)
\* the largest count of a bucket, and the scores of the buckets
MaxCount == 3
GaenScores == 1 .. 3

\* self.risk_change_histogram after the updaters of the call were counted
GaenHistograms ==
    UNION {[keys -> 1 .. MaxCount] : keys \in (SUBSET GaenScores) \ {{}}}

\* the first day after the burn-in, and the day before it
GaenDays == {INTERVENTION_DAY + BURN_IN_DAYS - 1, INTERVENTION_DAY + BURN_IN_DAYS}

\* self.risk_change_histogram_sum: the number of updaters counted so far
RECURSIVE HistogramSum(_, _)
HistogramSum(hist, keys) ==
    IF keys = {} THEN 0
    ELSE hist[SetMax(keys)] + HistogramSum(hist, keys \ {SetMax(keys)})

\* one call: the person updated last at latest and has score risk_change_score
CheckShouldSend ==
    /\ ~query.called
    /\ \E current_day_idx \in GaenDays, slot \in 0 .. TicksPerDay - 1, ago \in 0 .. TicksPerDay,
          already_sent \in 0 .. n_people - 1, hist \in GaenHistograms, coin \in BOOLEAN :
        \E risk_change_score \in DOMAIN hist :
          \E current_timestamp \in {current_day_idx * TicksPerDay + slot} :
            query' = [called |-> TRUE, day |-> current_day_idx, time |-> current_timestamp,
                      latest |-> current_timestamp - ago, score |-> risk_change_score,
                      sent |-> already_sent, hist |-> hist,
                      hist_sum |-> HistogramSum(hist, DOMAIN hist), coin |-> coin,
                      result |-> check_should_send_message_gaen(
                                    current_day_idx, current_timestamp, current_timestamp - ago,
                                    risk_change_score,
                                    IF already_sent = 0 THEN EmptyDict
                                    ELSE Put(EmptyDict, current_day_idx, already_sent),
                                    hist, HistogramSum(hist, DOMAIN hist), coin)]
    /\ UNCHANGED cityVars
    /\ UNCHANGED humanVars
    /\ UNCHANGED loopVars
    /\ UNCHANGED testVars

InitGaen ==
    /\ IdleCity
    /\ NewHuman(DefaultConfig, Zero)
    /\ NewLoop
    /\ NewQuery
    /\ NewFacility

NextGaen == CheckShouldSend

SpecGaen == InitGaen /\ [][NextGaen]_vars

(***************************************************************************)
(* src/covid19sim/base.py: TestFacility                                    *)
(***************************************************************************)
\* the ticks the facility is observed for
MaxTestTicks == 2

\* conf['TEST_TYPES'][test_type]['capacity']: the share of the population
\* that can be tested in a day
TEST_CAPACITY == [lab |-> Rat(1, 2), antigen |-> Rat(1, 100)]

\* City.__init__ lines 132-135: max([int(capacity * n_people), 1])
max_capacity_per_test_type ==
    [t \in TestTypes |->
        SetMax({(TEST_CAPACITY[t].n * n_people) \div TEST_CAPACITY[t].d, 1})]

\* the values score_test_need gives the humans in the queue
TestNeeds == 0 .. 1

\* get_available_test returns None
NoTest == "None"

\* a test handed out also when the count of the type is at its capacity
get_available_test_beyond(counts) ==
    LET avail == {i \in DOMAIN test_type_preference :
                    counts[test_type_preference[i]]
                        <= max_capacity_per_test_type[test_type_preference[i]]}
    IN  IF avail = {} THEN [test_type |-> NoTest, counts |-> counts]
        ELSE [test_type |-> test_type_preference[SetMin(avail)],
              counts |-> [counts EXCEPT ![test_type_preference[SetMin(avail)]] = @ + 1]]

\* lines 861-873: the first type, in the order of preference, whose count of
\* the day is below its capacity; its count is incremented
get_available_test(counts) ==
    LET avail == {i \in DOMAIN test_type_preference :
                    counts[test_type_preference[i]]
                        < max_capacity_per_test_type[test_type_preference[i]]}
    IN  IF avail = {} THEN [test_type |-> NoTest, counts |-> counts]
        ELSE [test_type |-> test_type_preference[SetMin(avail)],
              counts |-> [counts EXCEPT ![test_type_preference[SetMin(avail)]] = @ + 1]]

\* lines 843-859: on a new date the counts go back to 0 and the humans with
\* no symptom and no recommendation leave the queue; staying are the others
reset_tests_capacity(f, date, staying) ==
    IF f.last_date_to_check_tests # date
    THEN [f EXCEPT !.last_date_to_check_tests = date,
                   !.test_count_today = [t \in TestTypes |-> 0],
                   !.test_queue = SelectSeq(@, LAMBDA h : h \in staying)]
    ELSE f

\* line 896: sorted(list(self.test_queue), key=-score_test_need), a stable
\* sort: the humans of the largest need first, in the order of the queue
RECURSIVE Triage(_, _, _)
Triage(queue, score, level) ==
    IF level < 0 THEN <<>>
    ELSE SelectSeq(queue, LAMBDA h : score[h] = level) \o Triage(queue, score, level - 1)

\* lines 897-916: the humans are tested in the order of the triage until no
\* test is available; st is [counts, queue, tested]
RECURSIVE Administer(_, _, _)
Administer(test_triage, i, st) ==
    IF i > Len(test_triage) THEN st
    ELSE LET got == get_available_test(st.counts)
         IN  IF got.test_type = NoTest THEN st
             ELSE Administer(test_triage, i + 1,
                    [counts |-> got.counts,
                     queue |-> SelectSeq(st.queue, LAMBDA h : h # test_triage[i]),
                     tested |-> Append(st.tested,
                                  [human |-> test_triage[i], test_type |-> got.test_type])])

\* the facility and the tests given at the end of clear_test_queue
after_triage(g, test_triage, st) ==
    [facility |-> [g EXCEPT !.test_count_today = st.counts, !.test_queue = st.queue],
     queue_reset |-> g.test_queue,
     test_triage |-> test_triage,
     tested |-> st.tested]

\* lines 896-916 on the facility after the reset
triage_and_test(g, test_triage) ==
    after_triage(g, test_triage,
                 Administer(test_triage, 1,
                            [counts |-> g.test_count_today, queue |-> g.test_queue,
                             tested |-> <<>>]))

queue_after_reset(g, score) ==
    triage_and_test(g, Triage(g.test_queue, score, SetMax(TestNeeds)))

\* lines 886-916
clear_test_queue(f, date, staying, score) ==
    queue_after_reset(reset_tests_capacity(f, date, staying), score)

\* lines 875-884: a human is added once
add_to_test_queue(f, human) ==
    IF \E i \in DOMAIN f.test_queue : f.test_queue[i] = human THEN f
    ELSE [f EXCEPT !.test_queue = Append(@, human)]

\* City.add_to_test_queue, lines 594-595
AddToTestQueue ==
    /\ \E human \in Humans : facility' = add_to_test_queue(facility, human)
    /\ UNCHANGED last_clear
    /\ UNCHANGED cityVars
    /\ UNCHANGED humanVars
    /\ UNCHANGED loopVars
    /\ UNCHANGED gaenVars

\* City.run line 719: the testing routine of the tick
ClearTestQueue ==
    /\ \E staying \in SUBSET Humans, score \in [Humans -> TestNeeds] :
        \E res \in {clear_test_queue(facility, Date(now), staying, score)} :
            /\ facility' = res.facility
            /\ last_clear' = [called |-> TRUE,
                              new_date |-> facility.last_date_to_check_tests # Date(now),
                              count_before |-> facility.test_count_today,
                              queue_reset |-> res.queue_reset,
                              test_triage |-> res.test_triage,
                              tested |-> res.tested]
    /\ UNCHANGED cityVars
    /\ UNCHANGED humanVars
    /\ UNCHANGED loopVars
    /\ UNCHANGED gaenVars

\* City.run line 804: the clock of the environment moves to the next tick
TestTick ==
    /\ now < MaxTestTicks
    /\ now' = now + 1
    /\ UNCHANGED <<pc, ticks, current_day, last_day_idx, intervention, active,
                   risk_change_histogram, risk_change_histogram_sum,
                   sent_messages_by_day, latest_update_time, global_mailbox,
                   submitted, last_call, run_log>>
    /\ UNCHANGED testVars
    /\ UNCHANGED humanVars
    /\ UNCHANGED loopVars
    /\ UNCHANGED gaenVars

InitTest ==
    /\ IdleCity
    /\ NewHuman(DefaultConfig, Zero)
    /\ NewLoop
    /\ NewQuery
    /\ NewFacility

NextTest ==
    \/ AddToTestQueue
    \/ ClearTestQueue
    \/ TestTick

SpecTest == InitTest /\ [][NextTest]_vars

(***************************************************************************)
(* Helpers of the properties                                               *)
(***************************************************************************)
\* ceil of a rational
Ceil(r) == -((-r.n) \div r.d)

\* messages of the last call admitted before its i-th message
AdmittedBefore(i) ==
    Cardinality({j \in 1 .. (i - 1) : last_call.decisions[j]})

\* the sender's latest_update_time when the i-th message of the last call was decided
LatestAt(i) ==
    IF \E j \in 1 .. (i - 1) :
           last_call.senders[j] = last_call.senders[i] /\ last_call.decisions[j]
    THEN IF last_call.latest_before[last_call.senders[i]] > last_call.time
         THEN last_call.latest_before[last_call.senders[i]] ELSE last_call.time
    ELSE last_call.latest_before[last_call.senders[i]]

(***************************************************************************)
(* Properties of the message budget controller and the mailbox router      *)
(***************************************************************************)
\* C1: with the GAEN budget enabled, the number of messages admitted on any
\* day never exceeds ceil(MESSAGE_BUDGET_GAEN * n_people).
C1_DailyQuota ==
    USE_GAEN =>
        \A d \in DOMAIN sent_messages_by_day :
            sent_messages_by_day[d] <= Ceil(RMul(MESSAGE_BUDGET_GAEN, Rat(n_people, 1)))

\* C1 witness: the day's count has reached the cap and a message of a sender
\* whose cooldown had elapsed was turned down after the cap was reached.
C1_Witness ==
    /\ last_call.called
    /\ Get(sent_messages_by_day, last_call.day, 0)
           = Ceil(RMul(MESSAGE_BUDGET_GAEN, Rat(n_people, 1)))
    /\ \E i \in DOMAIN last_call.decisions :
        /\ ~last_call.decisions[i]
        /\ last_call.sent_before + AdmittedBefore(i)
               = Ceil(RMul(MESSAGE_BUDGET_GAEN, Rat(n_people, 1)))
        /\ Days(last_call.time - LatestAt(i)) >= DAYS_BETWEEN_MESSAGES

\* C2: no message is admitted on a day d with d - INTERVENTION_DAY <
\* BURN_IN_DAYS, whatever the sender's score: no such day has a sent count,
\* and every message of a call made on such a day is turned down.
C2_BurnIn ==
    USE_GAEN =>
        /\ \A d \in DOMAIN sent_messages_by_day : d - INTERVENTION_DAY >= BURN_IN_DAYS
        /\ (last_call.called /\ last_call.day - INTERVENTION_DAY < BURN_IN_DAYS) =>
              /\ \A i \in DOMAIN last_call.decisions : ~last_call.decisions[i]
              /\ Held(global_mailbox) = {}

\* C2 witness: on the first day with d - INTERVENTION_DAY = BURN_IN_DAYS a
\* message is admitted, after messages submitted on the day before were not.
C2_Witness ==
    /\ last_call.called
    /\ last_call.day - INTERVENTION_DAY = BURN_IN_DAYS
    /\ \E i \in DOMAIN last_call.decisions : last_call.decisions[i]
    /\ submitted > Len(last_call.senders)
    /\ Cardinality(Held(global_mailbox)) = AdmittedBefore(Len(last_call.decisions) + 1)

\* C3 (as claimed): immediately after cleanup_global_mailbox(now) no message
\* left in any personal mailbox is older than TRACING_N_DAYS_HISTORY days,
\* fractions of a day included.
C3_NoneOlderThanRetention ==
    [][(pc = "timeout" /\ current_day # last_day_idx) =>
          \A p \in Held(global_mailbox') :
              now' - global_mailbox'[p[1]][p[2]][p[3]].encounter_time
                  <= TRACING_N_DAYS_HISTORY * TicksPerDay]_vars

\* C9: a message is never admitted when the whole-day difference between the
\* call's timestamp and the sender's latest_update_time at that moment is
\* less than DAYS_BETWEEN_MESSAGES, later messages of the same call included.
C9_Cooldown ==
    (USE_GAEN /\ last_call.called) =>
        \A i \in DOMAIN last_call.decisions :
            last_call.decisions[i] =>
                Days(last_call.time - LatestAt(i)) >= DAYS_BETWEEN_MESSAGES

\* C9 witness: in one call a sender's first message is admitted and a later
\* message of the same sender is turned down.
C9_Witness ==
    /\ last_call.called
    /\ \E i, j \in DOMAIN last_call.decisions :
        /\ i < j
        /\ last_call.senders[i] = last_call.senders[j]
        /\ last_call.decisions[i]
        /\ ~last_call.decisions[j]
        /\ Days(last_call.time - LatestAt(j)) < DAYS_BETWEEN_MESSAGES

\* C10 (as claimed): within one register_new_messages call all messages of
\* the same sender receive the same decision.
C10_OneDecisionPerSender ==
    last_call.called =>
        \A i, j \in DOMAIN last_call.decisions :
            last_call.senders[i] = last_call.senders[j] =>
                last_call.decisions[i] = last_call.decisions[j]

\* the step of the quantization and the risks that are its multiples below 1
QuantizedRisks == {Rat(k, Pow2(RISK_BITS)) : k \in 0 .. Pow2(RISK_BITS) - 1}

\* the step of the side simulation is a fusion under the given model
Fuses(model) == fused' = fused + 1 /\ config.RISK_MODEL = model

Distinct(seq) == \A i, j \in DOMAIN seq : seq[i] = seq[j] => i = j

\* C4: under the 'yoshua' model every call of update_risk_encounter leaves
\* the risk at least what it was; the risk changes only when the decoded
\* risk m of the message exceeds it, and then by
\* (m - m * risk) * RISK_TRANSMISSION_PROBA.
C4_YoshuaMonotone ==
    [][Fuses("yoshua") =>
        LET m == MessageRisk(message)
            proba == config.RISK_TRANSMISSION_PROBA
        IN  /\ RLeq(risk, risk')
            /\ risk' # risk => RLess(risk, m)
            /\ RLess(risk, m) =>
                risk' = RAdd(risk, RMul(RSub(m, RMul(m, risk)), proba))]_vars

C4_Witness ==
    /\ config.RISK_MODEL = "yoshua"
    /\ fused = MaxFusions
    /\ risk_before = Rat(1, 4)
    /\ sender_risk = Rat(1, 2)
    /\ risk = RAdd(Rat(1, 4), RMul(Rat(3, 8), config.RISK_TRANSMISSION_PROBA))

\* C5: the rolling identifier has exactly 4 bits after the first
\* update_uid, which draws the 4 bits, and after every later update_uid.
C5_UidLength ==
    /\ rotations > 0 => uid.set
    /\ uid.set => Len(uid.bits) = 4 /\ Len(first_uid) = 4

C5_Witness ==
    /\ rotations = MaxRotations
    /\ first_uid = <<1, 0, 1, 1>>
    /\ uid.bits = <<1, 0, 1, 0>>

\* C6: after N distinct messages went through add_message_to_cluster the
\* table M has N entries, every message has exactly one assignment, the
\* first message processed is in group 0 and no group id exceeds the
\* number of groups created.
C6_ClusterTable ==
    Distinct(processed) =>
        /\ Len(M) = Len(processed)
        /\ \A i \in DOMAIN processed :
            Cardinality({j \in DOMAIN M : M[j].key = encode_message(processed[i])}) = 1
        /\ Len(processed) > 0 =>
            M[IndexOf(M, encode_message(processed[1]))].value.assignment = 0
        /\ \A j \in DOMAIN M : M[j].value.assignment <= groups_created

C6_Witness ==
    /\ Len(processed) = MaxClustered
    /\ Distinct(processed)
    /\ groups_created = 2
    /\ {M[j].value.assignment : j \in DOMAIN M} = {0, 1}

\* C7: for every risk v among 0, 1/16, ..., 15/16 the code message_risk
\* makes of v is decoded, as update_risk_encounter decodes message[1], to
\* v itself; the code of 1.0 is 1111.
C7_RoundTrip ==
    message # NoMessage =>
        /\ sender_risk \in QuantizedRisks =>
            /\ Len(message.risk) = RISK_BITS
            /\ MessageRisk(message) = sender_risk
        /\ sender_risk = One => message.risk = <<1, 1, 1, 1>>

C7_Witness ==
    /\ fused > 0
    /\ sender_risk = Rat(11, 16)
    /\ message.risk = <<1, 0, 1, 1>>
    /\ MessageRisk(message) = Rat(11, 16)

\* C8: under the 'lenka' model every call of update_risk_encounter adds
\* m * RISK_TRANSMISSION_PROBA to the risk, whatever the risk; the sum is
\* cut at 1 when the risk is clipped.
C8_LenkaAdditive ==
    [][Fuses("lenka") =>
        LET m == MessageRisk(message)
            sum == RAdd(risk, RMul(m, config.RISK_TRANSMISSION_PROBA))
        IN  risk' = IF config.CLIP_RISK THEN RMin(sum, One) ELSE sum]_vars

C8_Witness ==
    /\ config = [RISK_MODEL |-> "lenka", CLIP_RISK |-> TRUE,
                 RISK_TRANSMISSION_PROBA |-> Rat(1, 2)]
    /\ fused = 1
    /\ sender_risk = Rat(1, 2)
    /\ risk_before = Rat(9, 10)
    /\ risk = One

\* the humans who have a message admitted by the call last_call records
SendersAdmitted(call) ==
    {call.senders[i] : i \in {j \in DOMAIN call.decisions : call.decisions[j]}}

\* C11: the histogram bucket of a person's score and the running sum are
\* incremented only for a person who has a message sent by the call: a
\* person whose messages are all turned down leaves both unchanged.
C11_HistogramOnlyOnSend ==
    [][(pc = "register" /\ last_call'.called) =>
        /\ \A s \in Scores :
            Get(risk_change_histogram', s, 0) - Get(risk_change_histogram, s, 0)
                = Cardinality({h \in SendersAdmitted(last_call') : last_call'.scores[h] = s})
        /\ risk_change_histogram_sum' - risk_change_histogram_sum
                = Cardinality(SendersAdmitted(last_call'))]_vars

\* the list a mailbox holds for receiver u under key k
ListAt(mailbox, u, k) == Get(Get(mailbox, u, EmptyDict), k, <<>>)

\* the messages of a sequence that go to receiver u under key k, in order
Addressed(msgs, u, k) == SelectSeq(msgs, LAMBDA m : m.receiver = u /\ m.uid = k)

\* C12: each admitted message is appended at the end of the list kept under
\* its uid in its receiver's mailbox, a list that is created when the key is
\* absent: after a call every list is what it was, followed by the call's
\* admitted messages for that receiver and uid, in the order of the call.
C12_DepositAppends ==
    [][(pc = "register" /\ last_call'.called) =>
        \A u \in Humans, k \in Uids :
            ListAt(global_mailbox', u, k)
                = ListAt(global_mailbox, u, k) \o Addressed(last_call'.admitted, u, k)]_vars

C12_Witness ==
    /\ last_call.called
    /\ \E u \in Humans, k \in Uids :
        /\ Len(ListAt(global_mailbox, u, k)) = 2
        /\ ListAt(global_mailbox, u, k)[1] # ListAt(global_mailbox, u, k)[2]
        /\ Addressed(last_call.admitted, u, k) = <<ListAt(global_mailbox, u, k)[2]>>
        /\ \E v \in Humans, j \in Uids : v # u /\ ListAt(global_mailbox, v, j) # <<>>

\* the tick and the day index the observed run starts with
StartTick == now - ticks
StartDay == Days(StartTick - 1)

\* the positions of the cleanups in run_log
CleanupsAt == {j \in DOMAIN run_log : run_log[j].op = "cleanup"}

\* the ticks of day d within the observed run
TicksOfDay(d) == {t \in StartTick .. now : Days(t) = d}

\* C13: cleanup_global_mailbox runs exactly once for each change of the day
\* index and on no other tick, and when it runs for the rollover out of day
\* d every slot of day d has been through its register_new_messages step.
C13_CleanupOncePerDay ==
    /\ Cardinality(CleanupsAt) = last_day_idx - StartDay
    /\ \A d \in StartDay + 1 .. last_day_idx :
        Cardinality({j \in CleanupsAt : run_log[j].day = d}) = 1
    /\ pc = "jobs" => last_day_idx = Days(now - 1)
    /\ \A j \in CleanupsAt :
        \A t \in TicksOfDay(run_log[j].day - 1) :
            \E i \in 1 .. j - 1 : run_log[i].at = t /\ run_log[i].op \in {"register", "skip"}

C13_Witness ==
    /\ Cardinality(CleanupsAt) = 2
    /\ \E j \in CleanupsAt :
        /\ TicksOfDay(run_log[j].day - 1) # {}
        /\ \A t \in TicksOfDay(run_log[j].day - 1) :
            \E i \in 1 .. j - 1 : run_log[i].at = t /\ run_log[i].op = "register"

\* the positions of the update messages of a call that name an unknown human
StrayAt(call) ==
    {i \in DOMAIN call.senders :
        call.senders[i] \notin Humans \/ call.receivers[i] \notin Humans}

\* C19: register_new_messages given an update message whose sender or
\* receiver is not a known human raises an error, which ends the run; a
\* message is deposited or turned down by the budget controller unless the
\* call raises, in which case no later message is looked at.
C19_UnknownHumanRaises ==
    last_call.called =>
        /\ (StrayAt(last_call) # {}) = (last_call.raised = "KeyError")
        /\ last_call.raised = "KeyError" => pc = "aborted"
        /\ last_call.raised = "none" => Len(last_call.decisions) = Len(last_call.senders)
        /\ Len(last_call.admitted)
             = Cardinality({i \in DOMAIN last_call.decisions : last_call.decisions[i]})
        /\ \A i \in DOMAIN last_call.decisions : \A j \in StrayAt(last_call) : i < j

C19_Witness ==
    /\ last_call.called
    /\ last_call.raised = "KeyError"
    /\ \E j \in StrayAt(last_call) :
        /\ last_call.receivers[j] = UnknownHuman
        /\ j = 2
        /\ last_call.decisions = <<TRUE>>
    /\ pc = "aborted"

\* the message that differs from msg in the receiver reference only
Twin(msg) == [msg EXCEPT !.unobs_id = IF @ = 1 THEN 2 ELSE 1]

\* the group add_message_to_cluster gives msg in table Mtab
GroupGiven(Mtab, msg, proba) ==
    LET table == add_message_to_cluster(Mtab, msg, proba)
    IN  table[IndexOf(table, encode_message(msg))].value.assignment

\* C15: the reference unobs_id of a message has no influence on a risk
\* computation: from the same state of a human, a message and the message
\* that differs in unobs_id only give the same risk by update_risk_encounter
\* under each of the three models, and the same group by
\* add_message_to_cluster.
C15_ReferenceIgnored ==
    message # NoMessage =>
        /\ \A model \in {"yoshua", "lenka", "eilif"} :
            update_risk_encounter([risk |-> risk, M |-> M], message,
                                  [config EXCEPT !.RISK_MODEL = model]).risk
              = update_risk_encounter([risk |-> risk, M |-> M], Twin(message),
                                      [config EXCEPT !.RISK_MODEL = model]).risk
        /\ GroupGiven(M, message, config.RISK_TRANSMISSION_PROBA)
              = GroupGiven(M, Twin(message), config.RISK_TRANSMISSION_PROBA)

\* C18: under the 'eilif' model, fusing a message whose key is not in M
\* completes and increases the risk by m * RISK_TRANSMISSION_PROBA.
C18_EilifUnseenKey ==
    [][(Fuses("eilif") /\ ~HasKey(M, encode_message(message))) =>
        LET sum == RAdd(risk, RMul(MessageRisk(message), config.RISK_TRANSMISSION_PROBA))
        IN  /\ error' = "none"
            /\ risk' = IF config.CLIP_RISK THEN RMin(sum, One) ELSE sum]_vars

\* C17: with CLIP_RISK set, after every call of update_risk_encounter, for
\* every model and every message, the risk is at most 1.
C17_ClippedRisk ==
    (config.CLIP_RISK /\ fused > 0) => RLeq(risk, One)

C17_Witness ==
    /\ config.CLIP_RISK
    /\ config.RISK_MODEL = "eilif"
    /\ fused = MaxFusions
    /\ error = "none"
    /\ risk_before = Rat(9, 10)
    /\ MessageRisk(message) = Rat(15, 16)
    /\ risk = One

\* C14: a message held for a person is removed from the person's pending
\* messages once it has been fused: no message is fused again on a later day.
C14_ConsumedOnce ==
    \A h \in LoopHumans : \A i \in DOMAIN hd[h].reads : hd[h].reads[i] <= 1

\* C16: the risk of a quarantined person once the day's messages have been
\* processed is 1.0, whatever was fused that day and whatever the model and
\* the clipping.
C16_QuarantinedRiskIsOne ==
    \A h \in LoopHumans :
        (hd[h].after_read.day >= 0 /\ hd[h].after_read.is_quarantined)
            => hd[h].after_read.risk = One

\* C20: in each slot update_uid is called once for every person, and a
\* message is composed with a person's identifier only after the identifier
\* has been rotated for the slot; the identifier exists when a message is
\* composed.
C20_RotatedBeforeComposed ==
    /\ loop.error = "none" =>
        \A h \in LoopHumans :
            hd[h].rotations = (IF h < loop.next THEN loop.current_day + 1 ELSE loop.current_day)
    /\ \A i \in DOMAIN loop.composed : loop.composed[i].uid_day = loop.composed[i].day
    /\ loop.error # "AttributeError"

\* C21: every call of add_message_to_cluster inserts exactly one new entry
\* into the table M and removes none: the table has as many entries as
\* there were calls.
C21_OneEntryPerCall ==
    Len(M) = Len(processed)

\* the sum of the counts of the buckets keys of a histogram
RECURSIVE SumCounts(_, _)
SumCounts(hist, keys) ==
    IF keys = {} THEN 0
    ELSE LET k == CHOOSE x \in keys : TRUE
         IN  hist[k] + SumCounts(hist, keys \ {k})

\* C22: the risk-change histogram accumulates for the whole run: no step
\* (register_new_messages, cleanup, day rollover) removes a bucket or
\* decreases its count, and risk_change_histogram_sum is always the sum of
\* the counts of all buckets.
C22_HistogramAccumulates ==
    /\ [](risk_change_histogram_sum
            = SumCounts(risk_change_histogram, DOMAIN risk_change_histogram))
    /\ [][\A s \in DOMAIN risk_change_histogram :
            /\ s \in DOMAIN risk_change_histogram'
            /\ risk_change_histogram'[s] >= risk_change_histogram[s]]_vars

C22_Witness ==
    /\ risk_change_histogram_sum = 3
    /\ \E s \in DOMAIN risk_change_histogram : risk_change_histogram[s] = 2
    /\ \E j \in CleanupsAt : \E i \in DOMAIN run_log :
            i < j /\ run_log[i].op = "register" /\ run_log[i].day >= INTERVENTION_DAY
    /\ last_call.called /\ Len(last_call.senders) > 0
    /\ last_call.hist_before # EmptyDict

\* C23: sent_messages_by_day[d] counts from 0 the messages admitted while
\* the day index is d: a call adds the number of messages it admits to the
\* counter of its day, no other step and no other day's counter changes,
\* and no counter exists for a day that has not come.
C23_SentCounterOfDay ==
    /\ [](\A d \in DOMAIN sent_messages_by_day : d <= current_day)
    /\ [][\A d \in DOMAIN sent_messages_by_day \cup DOMAIN sent_messages_by_day' :
            Get(sent_messages_by_day', d, 0)
                = Get(sent_messages_by_day, d, 0)
                    + (IF pc = "register" /\ last_call'.called /\ d = current_day
                       THEN Len(last_call'.admitted) ELSE 0)]_vars

C23_Witness ==
    /\ Cardinality(DOMAIN sent_messages_by_day) = 2
    /\ sent_messages_by_day[current_day] = 2
    /\ sent_messages_by_day[current_day - 1] = 1
    /\ pc = "timeout"

\* the call passed the burn-in, the cooldown and the daily quota
PassesChecks(q) ==
    /\ q.called
    /\ ~BurnInRejects(q.day)
    /\ ~CooldownRejects(q.time, q.latest)
    /\ ~QuotaRejects(q.sent)

\* the sum of the fractions of the buckets whose score is greater than s,
\* and the fraction of the bucket of s
FractionAbove(q, s) ==
    Rat(SumCounts(q.hist, {k \in DOMAIN q.hist : k > s}), q.hist_sum)

FractionOf(q, s) == Rat(q.hist[s], q.hist_sum)

\* the decision of the call is the one of a walk against budget B
DecidedAgainst(q, B) ==
    LET A == FractionAbove(q, q.score)
        f == FractionOf(q, q.score)
    IN  /\ RLeq(B, A) => ~q.result
        /\ (RLess(A, B) /\ RLeq(RAdd(A, f), B)) => q.result
        /\ (RLess(A, B) /\ RLess(B, RAdd(A, f))) => (q.result <=> q.coin)

BudgetOfPopulation ==
    RDivInt(RMul(RMul(MESSAGE_BUDGET_GAEN, Rat(n_people, 1)), Rat(DAYS_BETWEEN_MESSAGES, 1)),
            UPDATES_PER_DAY)

\* C25: the budget the accumulated fractions are compared with is
\* MESSAGE_BUDGET_GAEN * n_people * DAYS_BETWEEN_MESSAGES / UPDATES_PER_DAY:
\* the decisions are those of a walk against that budget.
C25_BudgetOfPopulation ==
    PassesChecks(query) => DecidedAgainst(query, BudgetOfPopulation)

\* a person of score s, all else as in the call, can be admitted
Admissible(q, s) ==
    \E c \in BOOLEAN :
        check_should_send_message_gaen(q.day, q.time, q.latest, s,
            IF q.sent = 0 THEN EmptyDict ELSE Put(EmptyDict, q.day, q.sent),
            q.hist, q.hist_sum, c)

\* C26: for one histogram, configuration and day and two persons who pass
\* the burn-in, the cooldown and the quota, if the person of the lower
\* score can be admitted then so can the person of the higher score.
C26_FavoursLargerChanges ==
    PassesChecks(query) =>
        \A lower, higher \in DOMAIN query.hist :
            (lower < higher /\ Admissible(query, lower)) => Admissible(query, higher)

C26_Witness ==
    /\ PassesChecks(query)
    /\ Cardinality(DOMAIN query.hist) = 3
    /\ query.score = 1
    /\ ~Admissible(query, 1)
    /\ Admissible(query, 2)
    /\ Admissible(query, 3)
    /\ ~query.result

\* C27: every update_uid after the first drops the oldest bit of the
\* identifier, the one at its front, and appends a fresh bit at its end: the
\* bits that stay move one place towards the front.
C27_DropsOldestBit ==
    [][(uid.set /\ rotations' = rotations + 1) =>
        SubSeq(uid'.bits, 1, UID_BITS - 1) = Tail(uid.bits)]_vars

\* the table update_risk_encounter is called with in a step that fuses
\* message': a step that reads a message clusters it first
TableFused ==
    IF processed' # processed
    THEN add_message_to_cluster(M, message', config.RISK_TRANSMISSION_PROBA)
    ELSE M

\* C28: under the 'eilif' model, fusing a message whose key is in the table
\* adds (m - previous_risk) * RISK_TRANSMISSION_PROBA
\* + previous_risk * carry_over_transmission_proba to the risk (clipped if
\* CLIP_RISK is set); afterwards the key's previous_risk is m and its
\* carry_over_transmission_proba is RISK_TRANSMISSION_PROBA * (1 - update);
\* no other entry of the table is modified.
C28_EilifSeenKey ==
    [][(Fuses("eilif") /\ HasKey(TableFused, encode_message(message'))) =>
        LET key == encode_message(message')
            at == IndexOf(TableFused, key)
            entry == TableFused[at].value
            m == MessageRisk(message')
            proba == config.RISK_TRANSMISSION_PROBA
            update == RAdd(RMul(RSub(m, entry.previous_risk), proba),
                           RMul(entry.previous_risk, entry.carry_over_transmission_proba))
            sum == RAdd(risk, update)
        IN  /\ error' = "none"
            /\ risk' = IF config.CLIP_RISK THEN RMin(sum, One) ELSE sum
            /\ Len(M') = Len(TableFused)
            /\ M'[at].key = key
            /\ M'[at].value.previous_risk = m
            /\ M'[at].value.carry_over_transmission_proba = RMul(proba, RSub(One, update))
            /\ M'[at].value.assignment = entry.assignment
            /\ \A i \in DOMAIN TableFused : i # at => M'[i] = TableFused[i]]_vars

C28_Witness ==
    /\ config.RISK_MODEL = "eilif"
    /\ ~config.CLIP_RISK
    /\ config.RISK_TRANSMISSION_PROBA = Rat(1, 2)
    /\ fused = MaxFusions
    /\ Len(processed) = 1
    /\ Len(M) = 1
    /\ MessageRisk(message) = Rat(1, 2)
    /\ M[1].value.previous_risk = Rat(1, 2)
    /\ M[1].value.carry_over_transmission_proba = Rat(13, 32)
    /\ risk = RAdd(risk_before, Rat(3, 16))

\* C29: over successive 'eilif' fusions of one key, with no assignment by
\* add_message_to_cluster in between, the key's
\* carry_over_transmission_proba does not increase from one fusion to the
\* next.
C29_CarryOverDecays ==
    [][(Fuses("eilif") /\ processed' = processed /\ HasKey(M, encode_message(message))) =>
        LET at == IndexOf(M, encode_message(message))
        IN  RLeq(M'[at].value.carry_over_transmission_proba,
                 M[at].value.carry_over_transmission_proba)]_vars

\* C30: under the 'yoshua' model without clipping, with a transmission
\* probability in [0, 1] and a starting risk in [0, 1], the risk is within
\* [0, 1] after any sequence of fusions.
C30_YoshuaSelfLimiting ==
    (config.RISK_MODEL = "yoshua" /\ ~config.CLIP_RISK) =>
        /\ RLeq(Zero, risk)
        /\ RLeq(risk, One)

C30_Witness ==
    /\ config.RISK_MODEL = "yoshua"
    /\ ~config.CLIP_RISK
    /\ config.RISK_TRANSMISSION_PROBA = One
    /\ fused = MaxFusions
    /\ sender_risk = One
    /\ risk_before = Rat(9, 10)
    /\ risk = Rat(159, 160)

\* the score the calendar gives previous message m against m_i: the offset
\* is the number of calendar days from the encounter of m to that of m_i
CalendarScore(m_i, m) ==
    LET offset == m_i.time - m.time
    IN  IF m_i.uid = m.uid /\ offset = 0 THEN 3
        ELSE IF Prefix(m_i.uid, 3) = Prefix(m.uid, 3) /\ offset = 1 THEN 2
        ELSE IF Prefix(m_i.uid, 2) = Prefix(m.uid, 2) /\ offset = 2 THEN 1
        ELSE IF Prefix(m_i.uid, 1) = Prefix(m.uid, 1) /\ offset = 2 THEN 0
        ELSE -1

\* C31: a previous message scores 3 against the new one iff the pseudonyms
\* are equal and the encounters are on the same calendar day, else 2 iff
\* the first 3 bits match and it is 1 calendar day earlier, else 1 iff the
\* first 2 bits match and it is 2 days earlier, else 0 iff the first bit
\* matches and it is 2 days earlier, else it is no candidate; the offset is
\* the difference in calendar days, also across months.
C31_ScoresByCalendarDay ==
    \A i, j \in DOMAIN processed :
        i < j => ScoreOf(processed[j], processed[i]) = CalendarScore(processed[j], processed[i])

\* the places of table Mtab whose message is a candidate for m_i
Candidates(Mtab, m_i) ==
    {i \in DOMAIN Mtab : ScoreOf(m_i, decode_message(Mtab[i].key)) >= 0}

\* the group recorded for msg in table Mtab
GroupOf(Mtab, msg) == Mtab[IndexOf(Mtab, encode_message(msg))].value.assignment

\* C32: when at least one previous message is a candidate, the new message
\* gets the group of a candidate with the largest score, and among
\* candidates with that score of the one inserted into the table first.
C32_GroupOfFirstBest ==
    [][processed' # processed =>
        LET m_i == message'
            sc(i) == ScoreOf(m_i, decode_message(M[i].key))
            cands == Candidates(M, m_i)
        IN  cands # {} =>
                \E i \in cands :
                    /\ \A j \in cands : sc(j) <= sc(i)
                    /\ \A j \in cands : sc(j) = sc(i) => i <= j
                    /\ GroupOf(M', m_i) = M[i].value.assignment]_vars

\* two candidates of different groups tie and the first inserted wins
C32_Witness ==
    /\ Len(processed) = 3
    /\ Len(M) = 3
    /\ M[1].value.assignment # M[2].value.assignment
    /\ ScoreOf(processed[3], processed[1]) = ScoreOf(processed[3], processed[2])
    /\ ScoreOf(processed[3], processed[1]) >= 0
    /\ M[3].value.assignment = M[1].value.assignment

\* the group ids in use in table Mtab
GroupIds(Mtab) == {Mtab[i].value.assignment : i \in DOMAIN Mtab}

\* C33: when no previous message is a candidate, the new message starts a
\* group: group 0 if the table is empty, otherwise the largest group id in
\* the table plus 1; so the group ids in use are a contiguous range 0..k.
C33_NewGroupIsNextId ==
    /\ [](M # <<>> => GroupIds(M) = 0 .. SetMax(GroupIds(M)))
    /\ [][processed' # processed /\ Candidates(M, message') = {} =>
            GroupOf(M', message') =
                IF M = <<>> THEN 0 ELSE SetMax(GroupIds(M)) + 1]_vars

\* a group is started in a table of two entries that share group 0
C33_Witness ==
    /\ Len(processed) = 3
    /\ Len(M) = 3
    /\ M[1].value.assignment = 0
    /\ M[2].value.assignment = 0
    /\ Candidates(SubSeq(M, 1, 2), processed[3]) = {}
    /\ M[3].value.assignment = 1

\* C38: in the daily loop under 'eilif' add_message_to_cluster writes the
\* entry of a message immediately before update_risk_encounter fuses it, so
\* the update of every such fusion is m * RISK_TRANSMISSION_PROBA and the
\* risk after it is the one 'lenka' gives from the same risk and message.
C38_EilifInLoopIsLenka ==
    [][Fuses("eilif") /\ processed' # processed =>
        LET m == MessageRisk(message')
            sum == RAdd(risk, RMul(m, config.RISK_TRANSMISSION_PROBA))
        IN  /\ error' = "none"
            /\ risk' = IF config.CLIP_RISK THEN RMin(sum, One) ELSE sum
            /\ risk' = update_risk_encounter([risk |-> risk, M |-> M], message',
                                             [config EXCEPT !.RISK_MODEL = "lenka"]).risk]_vars

\* the same message of positive risk was read twice, unclipped
C38_Witness ==
    /\ config.RISK_MODEL = "eilif"
    /\ ~config.CLIP_RISK
    /\ fused = 2
    /\ Len(processed) = 2
    /\ processed[1] = processed[2]
    /\ MessageRisk(message) # Zero
    /\ Len(M) = 1

\* the floor the symptoms reported give the risk of a person not quarantined
SymptomFloor(symptoms) ==
    IF "severe" \in symptoms THEN Rat(3, 4)
    ELSE IF "moderate" \in symptoms THEN Rat(1, 2)
    ELSE IF "mild" \in symptoms THEN Rat(1, 4)
    ELSE Zero

\* C34: at the start of a person's daily processing, before any message is
\* fused, the risk of a person not quarantined is set to the floor of the
\* symptoms (0.75 severe, else 0.5 moderate, else 0.25 mild, else 0.0); the
\* risk of the day before is discarded, so the risk of the day is the floor
\* plus the updates of the messages fused on that day.
C34_FloorAtStartOfDay ==
    /\ [](\A s \in SUBSET {"mild", "moderate", "severe"} :
            risk_for_symptoms([is_quarantined |-> FALSE, symptoms |-> s]) = SymptomFloor(s))
    /\ [][hd' # hd =>
            LET h == loop.next
                ar == hd'[h].after_read
            IN  ~ar.is_quarantined =>
                    /\ hd'[h].risk = ar.risk
                    /\ hd[h].messages = <<>> => ar.risk = SymptomFloor(ar.symptoms)
                    /\ ar.risk = ReadMessages([risk |-> SymptomFloor(ar.symptoms),
                                               M |-> hd[h].M, error |-> "none"],
                                              hd[h].messages, 1, config).risk]_vars

\* a person of risk 0.75 on day 0, as the message composed that day tells,
\* reports no symptom on day 1 and has risk 0
C34_Witness ==
    \E h, g \in LoopHumans :
        /\ h < g
        /\ hd[h].after_read.day = 1
        /\ ~hd[h].after_read.is_quarantined
        /\ hd[h].after_read.symptoms = {}
        /\ hd[h].risk = Zero
        /\ \E i \in DOMAIN hd[g].messages :
            /\ hd[g].messages[i].unobs_id = h
            /\ hd[g].messages[i].time = 0
            /\ MessageRisk(hd[g].messages[i]) = Rat(3, 4)

\* C39: whenever _check_should_send_message_gaen is invoked from
\* register_new_messages, risk_change_histogram_sum is at least 1 and the
\* score of the sender is a key of risk_change_histogram with a count of at
\* least 1: the updaters of the call are counted before the first decision.
C39_SenderCountedBeforeDecision ==
    (USE_GAEN /\ last_call.called /\ last_call.decisions # <<>>) =>
        /\ risk_change_histogram_sum >= 1
        /\ \A i \in DOMAIN last_call.decisions :
            LET score == last_call.scores[last_call.senders[i]]
            IN  /\ score \in DOMAIN risk_change_histogram
                /\ risk_change_histogram[score] >= 1

\* a call decided on a sender whose score was no key before the call
C39_Witness ==
    /\ USE_GAEN
    /\ last_call.called
    /\ \E i \in DOMAIN last_call.decisions :
        /\ last_call.decisions[i]
        /\ last_call.scores[last_call.senders[i]] \notin DOMAIN last_call.hist_before
        /\ risk_change_histogram[last_call.scores[last_call.senders[i]]] = 1

\* the sum of the per-day sent counters
TotalSent(sent) == SumCounts(sent, DOMAIN sent)

\* the times message m is stored in the mailbox
TimesStored(mailbox, m) ==
    Cardinality({p \in Held(mailbox) : mailbox[p[1]][p[2]][p[3]] = m})

\* the times message m is in sequence msgs
TimesIn(msgs, m) == Cardinality({i \in DOMAIN msgs : msgs[i] = m})

\* C40: deposits and the sent counter stay in step: every call of
\* register_new_messages adds to the global mailbox as many messages as it
\* adds to the sum of sent_messages_by_day, one for each admitted message,
\* each admitted message stored exactly once; so with no drain and no
\* cleanup in between the messages held are as many as the sum of the
\* counters.
C40_DepositsMatchSentCounter ==
    [][(pc = "register" /\ last_call'.called) =>
        /\ Cardinality(Held(global_mailbox')) =
                Cardinality(Held(global_mailbox)) + Len(last_call'.admitted)
        /\ TotalSent(sent_messages_by_day') =
                TotalSent(sent_messages_by_day) + Len(last_call'.admitted)
        /\ \A i \in DOMAIN last_call'.admitted :
            LET m == last_call'.admitted[i]
            IN  TimesStored(global_mailbox', m) =
                    TimesStored(global_mailbox, m) + TimesIn(last_call'.admitted, m)]_vars

\* a second admitting call with nothing drained since the first: the
\* mailbox holds as many messages as were counted as sent
C40_Witness ==
    /\ last_call.called
    /\ last_call.admitted # <<>>
    /\ TotalSent(sent_messages_by_day) > Len(last_call.admitted)
    /\ Cardinality(Held(global_mailbox)) = TotalSent(sent_messages_by_day)

\* the age of message m at time t is within the retention window
WithinWindow(t, m) == (t - m.encounter_time) \div TicksPerDay <= TRACING_N_DAYS_HISTORY

\* the step is a run of cleanup_global_mailbox
CleansUp == run_log' # run_log /\ run_log'[Len(run_log')].op = "cleanup"

\* C35: cleanup_global_mailbox keeps every message whose age is within the
\* retention window, under the same receiver and the same key and in the
\* same relative order; it drops every key left with no surviving message,
\* so no key maps to an empty list; it keeps an entry for every receiver
\* present before; the histogram, its running sum and the per-day sent
\* counters are unchanged.
C35_CleanupKeepsRecent ==
    [][CleansUp =>
        /\ DOMAIN global_mailbox' = DOMAIN global_mailbox
        /\ \A u \in DOMAIN global_mailbox :
            /\ DOMAIN global_mailbox'[u] \subseteq DOMAIN global_mailbox[u]
            /\ \A k \in DOMAIN global_mailbox[u] :
                /\ ListAt(global_mailbox', u, k) =
                        SelectSeq(global_mailbox[u][k], LAMBDA m : WithinWindow(now', m))
                /\ k \in DOMAIN global_mailbox'[u] <=> ListAt(global_mailbox', u, k) # <<>>
        /\ UNCHANGED <<risk_change_histogram, risk_change_histogram_sum,
                       sent_messages_by_day>>]_vars

\* a cleanup dropped a message and kept another, and left a receiver with
\* an empty mailbox
C35_Witness ==
    /\ pc = "jobs"
    /\ run_log # <<>>
    /\ run_log[Len(run_log)].op = "cleanup"
    /\ run_log[Len(run_log)].held > Cardinality(Held(global_mailbox))
    /\ Cardinality(Held(global_mailbox)) > 0
    /\ \E u \in DOMAIN global_mailbox : global_mailbox[u] = EmptyDict

\* the step runs the lightweight jobs of a tick, which drain the mailboxes
Drains == pc = "jobs" /\ pc' # pc

\* the step takes a message out of the mailbox of receiver u
TakesFrom(u) ==
    \E k \in DOMAIN global_mailbox[u] :
        Len(ListAt(global_mailbox', u, k)) < Len(global_mailbox[u][k])

\* C36: a message deposited by register_new_messages during tick t cannot
\* be consumed by its recipient within tick t: in every tick the mailboxes
\* are drained before any deposit of that tick, so a step that drains finds
\* only registrations of earlier ticks, and nothing but a drain or the
\* cleanup takes a message out of a mailbox.
C36_DrainBeforeDeposit ==
    /\ [][Drains =>
            \A j \in DOMAIN run_log :
                run_log[j].op = "register" => run_log[j].at < now]_vars
    /\ [][(\E u \in DOMAIN global_mailbox : TakesFrom(u)) => (Drains \/ CleansUp)]_vars

\* a message admitted in the tick before was taken by its receiver's jobs
C36_Witness ==
    /\ pc = "register"
    /\ Days(now) < TRACING_N_DAYS_HISTORY
    /\ \E s \in Humans :
        /\ latest_update_time[s] = now - 1
        /\ ContactOf(s) \in active
        /\ global_mailbox[ContactOf(s)] = EmptyDict

\* the step is a call of clear_test_queue
ClearsQueue ==
    \/ last_clear' # last_clear
    \/ /\ facility' # facility
       /\ Len(facility'.test_queue) <= Len(facility.test_queue)

\* the tests of type t among the first k tests of a call
GivenOf(tested, t, k) == Cardinality({i \in 1 .. k : tested[i].test_type = t})

\* the count of type t the call starts from: 0 on a new date
CountAtStart(t) ==
    IF facility.last_date_to_check_tests # Date(now) THEN 0
    ELSE facility.test_count_today[t]

\* the place in the preference order of the type of the k-th test of a call
\* that gave the tests tested: the first with capacity left
FirstWithCapacity(tested, k) ==
    SetMin({i \in DOMAIN test_type_preference :
                CountAtStart(test_type_preference[i])
                    + GivenOf(tested, test_type_preference[i], k - 1)
                < max_capacity_per_test_type[test_type_preference[i]]})

\* C37: test_count_today[type] never exceeds max_capacity_per_test_type[type];
\* the counts go back to 0 at the first clear_test_queue of a new date and
\* change in no other way than by the tests given; get_available_test returns
\* the first type in preference order that has capacity left, and nothing when
\* every type is exhausted, and then the humans not yet tested stay in the
\* queue.
C37_TestsWithinCapacity ==
    /\ [](\A t \in TestTypes :
            facility.test_count_today[t] <= max_capacity_per_test_type[t])
    /\ [][~ClearsQueue => facility'.test_count_today = facility.test_count_today]_vars
    /\ [][ClearsQueue =>
            LET tested == last_clear'.tested
                test_triage == last_clear'.test_triage
            IN  /\ \A t \in TestTypes :
                    facility'.test_count_today[t] =
                        CountAtStart(t) + GivenOf(tested, t, Len(tested))
                /\ Len(tested) <= Len(test_triage)
                /\ \A k \in DOMAIN tested :
                    /\ tested[k].human = test_triage[k]
                    /\ tested[k].test_type =
                            test_type_preference[FirstWithCapacity(tested, k)]
                /\ Len(tested) < Len(test_triage) =>
                    \A t \in TestTypes :
                        facility'.test_count_today[t] = max_capacity_per_test_type[t]
                /\ facility'.test_queue =
                        SelectSeq(last_clear'.queue_reset,
                                  LAMBDA h : \A k \in DOMAIN tested : tested[k].human # h)]_vars

\* the first call of a new date found counts of the day before, gave one
\* test of each type in the order of preference and left a human untested
C37_Witness ==
    /\ last_clear.called
    /\ last_clear.new_date
    /\ last_clear.count_before["lab"] = 1
    /\ Len(last_clear.test_triage) = 3
    /\ Len(last_clear.tested) = 2
    /\ last_clear.tested[1].test_type = "lab"
    /\ last_clear.tested[2].test_type = "antigen"
    /\ Len(facility.test_queue) = 1
    /\ facility.test_queue[1] = last_clear.test_triage[3]

====
